---- MODULE Spec2Model ----
(***************************************************************************)
(* Push-notification dispatch pipeline of kitchensync-backend              *)
(* (src/src/routes/notifications.ts).                                      *)
(*                                                                         *)
(* The backing store (user_profiles, conversation_participants,           *)
(* notifications, user_follows, posts) is state; the handlers only read   *)
(* it.  A handler invocation advances one await at a time: every store    *)
(* query and the provider fetch is a step of its own, and the synchronous *)
(* code between two awaits belongs to the step of the await before it.    *)
(***************************************************************************)
EXTENDS Integers, Sequences, FiniteSets, TLC

VARIABLES
    profiles,       \* user_profiles: user id -> row
    participants,   \* conversation_participants: set of rows
    notifications,  \* notifications: user id -> counts of unread rows
    follows,        \* user_follows: follower id -> set of following ids
    posts,          \* posts: author id -> number of posts of the last 24 h
    pc,             \* position of the running handler invocation
    handler,        \* route of the running invocation
    req,            \* the record / validated body of the request
    loc,            \* local variables of the invocation
    reads,          \* store queries issued by the invocation, in order
    calls,          \* provider requests issued by the invocation, in order
    resp,           \* the HTTP response of the invocation
    failing,        \* the store queries that fail, by the name they are logged with
    rawBody,        \* the body of the webhook request as it arrived
    prev,           \* the last finished invocation: what it got and what it did
    http,           \* the request that runs through the middleware of the app
    rl,             \* the entries of the rate limiter: key -> count and resetAt
    now,            \* Date.now()
    log             \* the requests the rate limiter let through: key and time

store == <<profiles, participants, notifications, follows, posts>>
\* what no handler of the router touches
env == <<failing, rawBody, prev, http, rl, now, log>>
vars == <<profiles, participants, notifications, follows, posts,
          pc, handler, req, loc, reads, calls, resp,
          failing, rawBody, prev, http, rl, now, log>>

----------------------------------------------------------------------------
(* Bounds of the model *)

\* longest ticket list a provider response carries
MaxTickets == 2
\* largest number of unread notifications of one user, per age class
MaxUnread == 2
\* largest number of recent posts of one author
MaxPosts == 2
\* the largest number of unread notifications of the last 24 hours in the
\* stores of the digest
MaxDigestUnread == 5
\* the longest message content of the events of the preview
MaxContentLen == 150
\* opts.windowMs and opts.limit of the rate limiter, scaled down, in ticks of
\* the clock
windowMs == 2
limit == 2
\* the last tick of the clock
MaxTime == 3
\* how many requests past the limit a key sends within one window
MaxOver == 1

----------------------------------------------------------------------------
(* JavaScript values *)

\* null / undefined (a column that is NULL, a field that is absent)
NULL == "null"
JTRUE == "true"
JFALSE == "false"
Tri == {NULL, JTRUE, JFALSE}

\* a test that lets the empty string through
TruthyNonNull(x) == x # NULL

\* Boolean(x) of a string-or-null value: null, undefined and '' are falsy
Truthy(x) == x # NULL /\ x # ""

Users == {"u1", "u2", "u3", "u4"}
UserOrder == <<"u1", "u2", "u3", "u4">>
Conversation == "c1"

TokenOf(u) == "ExponentPushToken[" \o u \o "]"
NameOf(u) == "name-" \o u

\* the rows of UserOrder that satisfy P, in table order
RECURSIVE SelectUsers(_, _)
SelectUsers(S, i) ==
    IF i > Len(UserOrder) THEN <<>>
    ELSE IF UserOrder[i] \in S THEN <<UserOrder[i]>> \o SelectUsers(S, i + 1)
    ELSE SelectUsers(S, i + 1)

Range(s) == {s[i] : i \in DOMAIN s}

----------------------------------------------------------------------------
(* Static tables *)

NOTIFICATION_LABELS ==
    [follow |-> "started following you",
     follow_request |-> "sent you a follow request",
     like |-> "liked your recipe",
     comment |-> "commented on your recipe",
     reply |-> "replied to your comment",
     mention |-> "mentioned you",
     new_recipe |-> "shared a new recipe",
     post_like |-> "liked your post",
     post_comment |-> "commented on your post",
     post_reply |-> "replied to your comment",
     new_post |-> "published a new post",
     repost |-> "reposted your post"]

TYPE_TO_PREF ==
    [follow |-> "notify_new_follower",
     follow_request |-> "notify_follow_request",
     like |-> "notify_recipe_like",
     comment |-> "notify_recipe_comment",
     reply |-> "notify_comment_reply",
     mention |-> "notify_mention",
     post_like |-> "notify_post_like",
     post_comment |-> "notify_post_comment",
     post_reply |-> "notify_post_comment",
     repost |-> "notify_repost",
     new_post |-> "notify_new_post_from_following"]

TYPE_TO_CHANNEL ==
    [follow |-> "social",
     follow_request |-> "social",
     like |-> "social",
     comment |-> "social",
     reply |-> "social",
     mention |-> "social",
     new_recipe |-> "social",
     post_like |-> "social",
     post_comment |-> "social",
     post_reply |-> "social",
     new_post |-> "social",
     repost |-> "social"]

\* Keys every object literal inherits from Object.prototype, of which two
\* stand for all; the value is a function, given here by the text a template
\* literal turns it into.
ObjectPrototype ==
    [constructor |-> "function Object() { [native code] }",
     toString |-> "function toString() { [native code] }"]

\* table[key] of a JavaScript object: the own value, else the inherited one,
\* else undefined
Lookup(table, key) ==
    IF key \in DOMAIN table THEN table[key]
    ELSE IF key \in DOMAIN ObjectPrototype THEN ObjectPrototype[key]
    ELSE NULL

PrefColumns == {TYPE_TO_PREF[t] : t \in DOMAIN TYPE_TO_PREF}

----------------------------------------------------------------------------
(* The store *)

NoPrefs == [c \in PrefColumns |-> NULL]

\* user_profiles has no row for the user
NoRow ==
    [exists |-> FALSE, push_token |-> NULL, display_name |-> NULL,
     notify_direct_message |-> NULL, prefs |-> NoPrefs]

Row(token, name, dm, prefs) ==
    [exists |-> TRUE, push_token |-> token, display_name |-> name,
     notify_direct_message |-> dm, prefs |-> prefs]

TokenValues(u) == {NULL, "", TokenOf(u)}

NoCounts == [u \in Users |-> [old |-> 0, recent |-> 0]]
NoFollows == [u \in Users |-> {}]
NoPosts == [u \in Users |-> 0]

----------------------------------------------------------------------------
(* Handler-local state *)

NoBody == [kind |-> "none"]
NoPrev == [kind |-> "none"]
NoHttp == [stage |-> "none"]

\* the keys of the rate limiter: the ids of the authenticated users
Keys == {"u1", "u2"}

\* store.get(key) is undefined
NoEntry == [present |-> FALSE, count |-> 0, resetAt |-> 0]
NoEntries == [k \in Keys |-> NoEntry]
NoPasses == [k \in Keys |-> [t \in 0..MaxTime |-> 0]]

NoReq == [kind |-> "none"]
NoResp == [status |-> 0, kind |-> "none"]

NoLoc ==
    [participants |-> <<>>,  \* rows read from conversation_participants
     recipientIds |-> <<>>,
     followingIds |-> <<>>,
     profiles |-> <<>>,      \* rows read from user_profiles
     called |-> FALSE,       \* sendExpoPush has been called
     tokens |-> <<>>,        \* tokens handed to sendExpoPush
     actorName |-> NULL,
     response |-> [kind |-> "none", tickets |-> <<>>],  \* what the fetch settled with
     title |-> NULL,
     body |-> <<>>,
     data |-> [undefined |-> TRUE],
     unreadCount |-> 0,
     newPostCount |-> 0]

Skipped(reason) == [status |-> 200, kind |-> "skipped", reason |-> reason]
DataReply(result) == [status |-> 200, kind |-> "data", data |-> result]
ErrorReply(status, msg) == [status |-> status, kind |-> "error", error |-> msg]

----------------------------------------------------------------------------
(* sendExpoPush *)

\* the data object of a push; a field that is undefined is NULL
PushData(type, actorId, targetId, targetType, channelId, conversationId, senderId) ==
    [type |-> type, actorId |-> actorId, targetId |-> targetId,
     targetType |-> targetType, channelId |-> channelId,
     conversationId |-> conversationId, senderId |-> senderId]

\* an optional data argument that is not given
NoData == [undefined |-> TRUE]

\* {}
EmptyData == PushData(NULL, NULL, NULL, NULL, NULL, NULL, NULL)

\* tokens.map(token => ({to: token, sound: 'default', title, body, data: data ?? {}}))
Messages(tokens, title, body, data) ==
    [i \in 1..Len(tokens) |->
        [to |-> tokens[i], sound |-> "default", title |-> title, body |-> body,
         data |-> IF data = NoData THEN EmptyData ELSE data]]

TicketStatuses == {"ok", "error"}

TicketLists == UNION {[1..n -> TicketStatuses] : n \in 0..MaxTickets}

\* What the provider can answer to one fetch:
\*   throw      fetch rejects (transport failure, timeout of the runtime)
\*   status     a response with response.ok false
\*   badjson    response.json() rejects
\*   illshaped  the body parses, and reading its tickets throws a TypeError
\*              (body null, data not an array, a null ticket)
\*   nodata     the body parses and has no data field
\*   tickets    the body parses and data is an array of tickets
ProviderResponses ==
    {[kind |-> k, tickets |-> <<>>] :
        k \in {"throw", "status", "badjson", "illshaped", "nodata"}}
    \cup {[kind |-> "tickets", tickets |-> t] : t \in TicketLists}

\* tickets.filter(t => t.status === 'ok').length
CountOk(tickets) == Cardinality({i \in DOMAIN tickets : tickets[i] = "ok"})

\* the result with only the returned tickets counted
ExpoResultTicketsOnly(tokens, r) ==
    IF r.kind \in {"throw", "status", "badjson", "illshaped"}
    THEN [sent |-> 0, failed |-> Len(tokens)]
    ELSE [sent |-> CountOk(r.tickets), failed |-> Len(r.tickets) - CountOk(r.tickets)]

\* the result with a failed fetch reported as nothing attempted
ExpoResultFailureDropped(tokens, r) ==
    IF r.kind \in {"throw", "status", "badjson", "illshaped"}
    THEN [sent |-> 0, failed |-> 0]
    ELSE [sent |-> CountOk(r.tickets), failed |-> Len(tokens) - CountOk(r.tickets)]

\* the result sendExpoPush resolves to once the fetch has settled with r
ExpoResult(tokens, r) ==
    IF r.kind \in {"throw", "badjson", "illshaped"}
    THEN [sent |-> 0, failed |-> Len(tokens)]            \* catch (err)
    ELSE IF r.kind = "status"
    THEN [sent |-> 0, failed |-> Len(tokens)]            \* !response.ok
    ELSE LET tickets == r.tickets                        \* result.data ?? []
             sent == CountOk(tickets)
         IN  [sent |-> sent, failed |-> Len(tokens) - sent]

\* { ...a, ...b }: the fields of b override those of a
Spread(a, b) ==
    [k \in DOMAIN a \cup DOMAIN b |-> IF k \in DOMAIN b THEN b[k] ELSE a[k]]

\* a JSON value of the digest body, with its JavaScript type
JBool(b) == [type |-> "boolean", value |-> IF b THEN JTRUE ELSE JFALSE]
JNum(n) == [type |-> "number", value |-> n]

\* { sent: true, ...result }
DigestData(result) ==
    Spread([sent |-> JBool(TRUE)],
           [sent |-> JNum(result.sent), failed |-> JNum(result.failed)])

\* the body a handler answers with once sendExpoPush has resolved to result
Reply(h, result) ==
    IF h = "digest"
    THEN DataReply(DigestData(result))
    ELSE DataReply(result)

\* sendExpoPush without its guard on an empty token list
DispatchAlwaysFetch(l, tokens, title, body, data) ==
    /\ loc' = [l EXCEPT !.called = TRUE, !.tokens = tokens, !.title = title,
                        !.body = body, !.data = data]
    /\ calls' = Append(calls, Messages(tokens, title, body, data))
    /\ resp' = resp
    /\ pc' = "fetch"

\* sendExpoPush issuing one fetch per token
DispatchPerToken(l, tokens, title, body, data) ==
    /\ loc' = [l EXCEPT !.called = TRUE, !.tokens = tokens, !.title = title,
                        !.body = body, !.data = data]
    /\ IF Len(tokens) = 0
       THEN /\ calls' = calls
            /\ resp' = Reply(handler, [sent |-> 0, failed |-> 0])
            /\ pc' = "done"
       ELSE /\ calls' = calls \o [i \in 1..Len(tokens) |->
                                     Messages(<<tokens[i]>>, title, body, data)]
            /\ resp' = resp
            /\ pc' = "fetch"

\* sendExpoPush(tokens, title, body, data) up to its await, called with the
\* locals l: an empty token list resolves at once, with no fetch; any other
\* list issues one fetch carrying one message per token
\* the dispatch that sends nothing when the invocation before sent the same
\* messages
DispatchDeduplicated(l, tokens, title, body, data) ==
    /\ loc' = [l EXCEPT !.called = TRUE, !.tokens = tokens, !.title = title,
                        !.body = body, !.data = data]
    /\ IF Len(tokens) = 0
          \/ (prev.kind = "done" /\ prev.calls = <<Messages(tokens, title, body, data)>>)
       THEN /\ calls' = calls
            /\ resp' = Reply(handler, [sent |-> 0, failed |-> 0])
            /\ pc' = "done"
       ELSE /\ calls' = Append(calls, Messages(tokens, title, body, data))
            /\ resp' = resp
            /\ pc' = "fetch"

Dispatch(l, tokens, title, body, data) ==
    /\ loc' = [l EXCEPT !.called = TRUE, !.tokens = tokens, !.title = title,
                        !.body = body, !.data = data]
    /\ IF Len(tokens) = 0
       THEN /\ calls' = calls
            /\ resp' = Reply(handler, [sent |-> 0, failed |-> 0])
            /\ pc' = "done"
       ELSE /\ calls' = Append(calls, Messages(tokens, title, body, data))
            /\ resp' = resp
            /\ pc' = "fetch"

\* the fetch settles with r; sendExpoPush resolves and the handler answers
ExpoReturn(r) ==
    /\ pc = "fetch"
    /\ loc' = [loc EXCEPT !.response = r]
    /\ resp' = Reply(handler, ExpoResult(loc.tokens, r))
    /\ pc' = "done"
    /\ UNCHANGED <<store, env, handler, req, reads, calls>>

\* the response is sent; nothing of the invocation is kept
\* the response goes out and the notifications of the store are marked read
ReturnMarksRead ==
    /\ pc = "done"
    /\ pc' = "idle"
    /\ handler' = NULL
    /\ req' = NoReq
    /\ loc' = NoLoc
    /\ reads' = <<>>
    /\ calls' = <<>>
    /\ resp' = NoResp
    /\ notifications' = [u \in DOMAIN notifications |-> [old |-> 0, recent |-> 0]]
    /\ UNCHANGED <<profiles, participants, follows, posts>>

\* the response goes out and the invocation is over
Return ==
    /\ pc = "done"
    /\ pc' = "idle"
    /\ handler' = NULL
    /\ req' = NoReq
    /\ loc' = NoLoc
    /\ reads' = <<>>
    /\ calls' = <<>>
    /\ resp' = NoResp
    /\ UNCHANGED store

Finish == Return /\ UNCHANGED env

\* the response has gone out, and what the invocation got and did is kept
\* for the comparison with the next one
FinishKept ==
    /\ Return
    /\ prev' = [kind |-> "done", handler |-> handler, body |-> rawBody,
                resp |-> resp, calls |-> calls, response |-> loc.response]
    /\ rawBody' = NoBody
    /\ UNCHANGED <<failing, http, rl, now, log>>

\* a handler answers without dispatching
Answer(r) ==
    /\ resp' = r
    /\ pc' = "done"
    /\ calls' = calls

----------------------------------------------------------------------------
(* Store queries *)

\* from('user_profiles').select(...).eq('user_id', id).single(): the row, or
\* data null when there is none (every field of NoRow reads as undefined)
\* const { data } = await supabase.from(...)...: the client does not throw
\* when the query fails, it hands back an error and data null (count null),
\* and the handlers read data alone
Read(label, data, none) == IF label \in failing THEN none ELSE data

QueryProfile(id) ==
    IF id \in Users /\ profiles[id].exists THEN profiles[id] ELSE NoRow

\* the participants query without .neq('user_id', senderId)
QueryParticipantsWithSender(conversationId, senderId) ==
    LET seq == SelectUsers({u \in Users :
                  \E p \in participants :
                      p.conversation_id = conversationId /\ p.user_id = u}, 1)
    IN  [i \in 1..Len(seq) |->
            CHOOSE p \in participants :
                p.conversation_id = conversationId /\ p.user_id = seq[i]]

\* from('conversation_participants').select('user_id, is_muted')
\*   .eq('conversation_id', conversationId).neq('user_id', senderId)
QueryParticipants(conversationId, senderId) ==
    LET ids == {u \in Users :
                  /\ u # senderId
                  /\ \E p \in participants :
                        p.conversation_id = conversationId /\ p.user_id = u}
        seq == SelectUsers(ids, 1)
    IN  [i \in 1..Len(seq) |->
            CHOOSE p \in participants :
                p.conversation_id = conversationId /\ p.user_id = seq[i]]

\* from('user_profiles').select(...).in('user_id', ids).not('push_token', 'is', null)
QueryProfilesWithToken(ids) ==
    LET seq == SelectUsers({u \in Users : /\ u \in ids
                                          /\ profiles[u].exists
                                          /\ profiles[u].push_token # NULL}, 1)
    IN  [i \in 1..Len(seq) |->
            [user_id |-> seq[i],
             push_token |-> profiles[seq[i]].push_token,
             display_name |-> profiles[seq[i]].display_name,
             notify_direct_message |-> profiles[seq[i]].notify_direct_message]]

----------------------------------------------------------------------------
(* Text: a string is the sequence of its characters *)

\* a field of the record that is absent
Absent == <<NULL>>

\* Boolean(s) of a string-or-undefined value
TruthyText(s) == s # Absent /\ s # <<>>

TEXT == <<"t", "e", "x", "t">>
IMAGE == <<"i", "m", "a", "g", "e">>
SENT_A_PHOTO == <<"S", "e", "n", "t", " ", "a", " ", "p", "h", "o", "t", "o">>
SHARED_ == <<"S", "h", "a", "r", "e", "d", " ">>
ELLIPSIS == <<".", ".", ".">>
SENT_YOU_A_MESSAGE ==
    <<"S", "e", "n", "t", " ", "y", "o", "u", " ", "a", " ",
      "m", "e", "s", "s", "a", "g", "e">>

\* s.replace('_', ' '): a string pattern replaces its first occurrence only
ReplaceFirst(s, from, to) ==
    LET hits == {i \in 1..Len(s) : s[i] = from}
    IN  IF hits = {} THEN s
        ELSE LET first == CHOOSE i \in hits : \A j \in hits : i <= j
             IN  [i \in 1..Len(s) |-> IF i = first THEN to ELSE s[i]]

\* s.slice(0, n)
Slice(s, n) == SubSeq(s, 1, IF n < Len(s) THEN n ELSE Len(s))

PreviewLimit == 100
PreviewKeep == 97

\* let preview = content; if (messageType !== 'text') preview = ...
PreviewText(content, messageType) ==
    IF messageType # TEXT
    THEN IF messageType = IMAGE THEN SENT_A_PHOTO
         ELSE SHARED_ \o ReplaceFirst(messageType, "_", " ")
    ELSE content

\* the cut that keeps as many characters as the limit before the marker
TruncateAtLimit(p) ==
    IF TruthyText(p) /\ Len(p) > PreviewLimit
    THEN Slice(p, PreviewLimit) \o ELLIPSIS
    ELSE p

\* if (preview && preview.length > 100) preview = preview.slice(0, 97) + '...'
Truncate(p) ==
    IF TruthyText(p) /\ Len(p) > PreviewLimit
    THEN Slice(p, PreviewKeep) \o ELLIPSIS
    ELSE p

\* the preview as the handler leaves it before the dispatch
Preview(content, messageType) == Truncate(PreviewText(content, messageType))

----------------------------------------------------------------------------
(* POST /webhook/on-message *)

\* the recipient ids without the mute filter
UnmutedUnfiltered(rows) == [i \in 1..Len(rows) |-> rows[i].user_id]

\* participants.filter(p => !p.is_muted).map(p => p.user_id)
Unmuted(rows) ==
    LET keep == SelectSeq(rows, LAMBDA p : ~p.is_muted)
    IN  [i \in 1..Len(keep) |-> keep[i].user_id]

\* profiles.filter(p => p.notify_direct_message !== false)
\*         .map(p => p.push_token).filter(Boolean)
DmTokens(rows) ==
    LET allowed == SelectSeq(rows, LAMBDA p : p.notify_direct_message # JFALSE)
        mapped == [i \in 1..Len(allowed) |-> allowed[i].push_token]
    IN  SelectSeq(mapped, Truthy)

MessageData(conversationId, senderId) ==
    PushData("dm", NULL, NULL, NULL, "messages", conversationId, senderId)

\* the request arrives; record.conversation_id and record.sender_id are checked
MessageStart(record) ==
    /\ pc = "idle"
    /\ handler' = "on-message"
    /\ req' = record
    /\ IF ~Truthy(record.conversation_id) \/ ~Truthy(record.sender_id)
       THEN Answer(Skipped("missing fields"))
       ELSE pc' = "msg_participants" /\ resp' = resp /\ calls' = calls
    /\ UNCHANGED <<store, loc, reads>>

\* the request arrives with the record its body holds
OnMessage(record) == MessageStart(record) /\ UNCHANGED env

\* the participants query resolves; muted participants are dropped
MsgParticipants ==
    /\ pc = "msg_participants"
    /\ reads' = Append(reads, "conversation_participants")
    /\ LET rows == Read("conversation_participants",
                        QueryParticipants(req.conversation_id, req.sender_id), <<>>)
           recipientIds == Unmuted(rows)
       IN  IF Len(rows) = 0
           THEN Answer(Skipped("no_recipients")) /\ loc' = loc
           ELSE IF Len(recipientIds) = 0
           THEN Answer(Skipped("all_muted")) /\ loc' = loc
           ELSE /\ loc' = [loc EXCEPT !.participants = rows,
                                      !.recipientIds = recipientIds]
                /\ pc' = "msg_profiles" /\ resp' = resp /\ calls' = calls
    /\ UNCHANGED <<store, env, handler, req>>

\* the profiles query resolves
MsgProfiles ==
    /\ pc = "msg_profiles"
    /\ reads' = Append(reads, "user_profiles:recipients")
    /\ LET rows == Read("user_profiles:recipients",
                        QueryProfilesWithToken(Range(loc.recipientIds)), <<>>)
       IN  IF Len(rows) = 0
           THEN Answer(Skipped("no_push_tokens")) /\ loc' = loc
           ELSE /\ loc' = [loc EXCEPT !.profiles = rows]
                /\ pc' = "msg_sender" /\ resp' = resp /\ calls' = calls
    /\ UNCHANGED <<store, env, handler, req>>

\* the sender query resolves; the push is composed and handed to sendExpoPush
MsgSender ==
    /\ pc = "msg_sender"
    /\ reads' = Append(reads, "user_profiles:sender")
    /\ LET senderProfile == Read("user_profiles:sender",
                                 QueryProfile(req.sender_id), NoRow)
           senderName == IF Truthy(senderProfile.display_name)
                         THEN senderProfile.display_name ELSE "Someone"
           preview == Preview(req.content,
                              IF TruthyText(req.message_type)
                              THEN req.message_type ELSE TEXT)
           tokens == DmTokens(loc.profiles)
           body == IF TruthyText(preview) THEN preview ELSE SENT_YOU_A_MESSAGE
           data == MessageData(req.conversation_id, req.sender_id)
       IN  IF Len(tokens) = 0
           THEN Answer(Skipped("all_dm_disabled")) /\ loc' = loc
           ELSE Dispatch(loc, tokens, senderName, body, data)
    /\ UNCHANGED <<store, env, handler, req>>

----------------------------------------------------------------------------
(* POST /webhook/on-notification *)

\* the preference check with its comparison inverted
PreferenceDisabledInverted(recipient, prefColumn) ==
    /\ prefColumn # NULL
    /\ prefColumn \in DOMAIN recipient.prefs
    /\ recipient.prefs[prefColumn] = JTRUE

\* prefColumn && recipient[prefColumn] === false
PreferenceDisabled(recipient, prefColumn) ==
    /\ prefColumn # NULL
    /\ prefColumn \in DOMAIN recipient.prefs
    /\ recipient.prefs[prefColumn] = JFALSE

\* the checks on the recipient row with the preference looked at first
RecipientGatePreferenceFirst(recipient, prefColumn) ==
    IF PreferenceDisabled(recipient, prefColumn) THEN "user_preference_disabled"
    ELSE IF ~Truthy(recipient.push_token) THEN "no_push_token"
    ELSE "pass"

\* the checks on the recipient row, in the order the handler makes them
RecipientGate(recipient, prefColumn) ==
    IF ~Truthy(recipient.push_token) THEN "no_push_token"
    ELSE IF PreferenceDisabled(recipient, prefColumn) THEN "user_preference_disabled"
    ELSE "pass"

\* `${actorName} ${label}`
NotificationBody(actorName, notifType) ==
    LET found == Lookup(NOTIFICATION_LABELS, notifType)
        label == IF Truthy(found) THEN found ELSE "sent you a notification"
    IN  <<actorName, " ", label>>

\* x || undefined
OrUndefined(x) == IF Truthy(x) THEN x ELSE NULL

NotificationData(record) ==
    LET found == Lookup(TYPE_TO_CHANNEL, record.type)
        channelId == IF Truthy(found) THEN found ELSE "social"
    IN  PushData(record.type, OrUndefined(record.actor_id),
                 OrUndefined(record.target_id), OrUndefined(record.target_type),
                 channelId, NULL, NULL)

\* from('user_profiles').select(selectCols).eq('user_id', userId).single():
\* the store refuses a column list that names something else than a column
\* of user_profiles, and the client then hands back data null
QueryRecipient(id, prefColumn) ==
    IF prefColumn # NULL /\ prefColumn \notin PrefColumns
    THEN NoRow
    ELSE QueryProfile(id)

\* record.user_id is checked
NotificationStart(record) ==
    /\ pc = "idle"
    /\ handler' = "on-notification"
    /\ req' = record
    /\ IF ~Truthy(record.user_id)
       THEN Answer(Skipped("no user_id"))
       ELSE pc' = "notif_recipient" /\ resp' = resp /\ calls' = calls
    /\ UNCHANGED <<store, loc, reads>>

\* the request arrives with the record its body holds
OnNotification(record) == NotificationStart(record) /\ UNCHANGED env

\* the recipient query resolves; token and preference are checked
NotifRecipient ==
    /\ pc = "notif_recipient"
    /\ reads' = Append(reads, "user_profiles:recipient")
    /\ LET prefColumn == Lookup(TYPE_TO_PREF, req.type)
           recipient == Read("user_profiles:recipient",
                             QueryRecipient(req.user_id, prefColumn), NoRow)
           gate == RecipientGate(recipient, prefColumn)
       IN  IF gate # "pass"
           THEN Answer(Skipped(gate)) /\ loc' = loc
           ELSE /\ loc' = [loc EXCEPT !.tokens = <<recipient.push_token>>,
                                      !.actorName = "Someone"]
                /\ pc' = IF Truthy(req.actor_id) THEN "notif_actor" ELSE "notif_count"
                /\ resp' = resp /\ calls' = calls
    /\ UNCHANGED <<store, env, handler, req>>

\* the actor query resolves
NotifActor ==
    /\ pc = "notif_actor"
    /\ reads' = Append(reads, "user_profiles:actor")
    /\ LET actor == Read("user_profiles:actor", QueryProfile(req.actor_id), NoRow)
       IN  loc' = [loc EXCEPT !.actorName =
                      IF Truthy(actor.display_name) THEN actor.display_name
                      ELSE loc.actorName]
    /\ pc' = "notif_count"
    /\ UNCHANGED <<store, env, handler, req, calls, resp>>

\* from('notifications').select('id', {count: 'exact', head: true})
\*   .eq('user_id', userId).eq('is_read', false)
CountUnread(userId) ==
    IF userId \in Users
    THEN notifications[userId].old + notifications[userId].recent ELSE 0

\* the unread-count query resolves; the push is handed to sendExpoPush
NotifCount ==
    /\ pc = "notif_count"
    /\ reads' = Append(reads, "notifications:unread")
    /\ LET unreadCount == Read("notifications:unread", CountUnread(req.user_id), 0)
           body == NotificationBody(loc.actorName, req.type)
           data == NotificationData(req)
       IN  Dispatch([loc EXCEPT !.unreadCount = unreadCount],
                    loc.tokens, "KitchenSync", body, data)
    /\ UNCHANGED <<store, env, handler, req>>

----------------------------------------------------------------------------
(* POST /push and POST /push/batch *)

\* the validated body arrives
Push(body) ==
    /\ pc = "idle"
    /\ handler' = "push"
    /\ req' = body
    /\ pc' = "push_profile"
    /\ UNCHANGED <<store, env, loc, reads, calls, resp>>

\* the profile query resolves
PushProfile ==
    /\ pc = "push_profile"
    /\ reads' = Append(reads, "user_profiles:user")
    /\ LET profile == Read("user_profiles:user", QueryProfile(req.userId), NoRow)
       IN  IF ~Truthy(profile.push_token)
           THEN Answer(ErrorReply(404, "No push token for user")) /\ loc' = loc
           ELSE Dispatch(loc, <<profile.push_token>>, req.title, req.body, req.data)
    /\ UNCHANGED <<store, env, handler, req>>

\* the validated body arrives
PushBatch(body) ==
    /\ pc = "idle"
    /\ handler' = "push/batch"
    /\ req' = body
    /\ pc' = "batch_profiles"
    /\ UNCHANGED <<store, env, loc, reads, calls, resp>>

\* (profiles ?? []).map(p => p.push_token).filter(Boolean)
BatchTokens(rows) ==
    SelectSeq([i \in 1..Len(rows) |-> rows[i].push_token], Truthy)

\* the profiles query resolves
BatchProfiles ==
    /\ pc = "batch_profiles"
    /\ reads' = Append(reads, "user_profiles:users")
    /\ LET rows == Read("user_profiles:users", QueryProfilesWithToken(req.userIds), <<>>)
           tokens == BatchTokens(rows)
       IN  Dispatch([loc EXCEPT !.profiles = rows],
                    tokens, req.title, req.body, req.data)
    /\ UNCHANGED <<store, env, handler, req>>

----------------------------------------------------------------------------
(* POST /digest *)

\* the unread count without the 24-hour window
CountUnreadAnyAge(userId) ==
    IF userId \in Users
    THEN notifications[userId].old + notifications[userId].recent
    ELSE 0

\* unread notifications of the last 24 hours
CountUnreadRecent(userId) ==
    IF userId \in Users THEN notifications[userId].recent ELSE 0

\* from('user_follows').select('following_id').eq('follower_id', userId)
QueryFollowing(userId) == IF userId \in Users THEN follows[userId] ELSE {}

RECURSIVE SumPosts(_)
SumPosts(ids) ==
    IF ids = {} THEN 0
    ELSE LET u == CHOOSE x \in ids : TRUE IN posts[u] + SumPosts(ids \ {u})

\* posts of the last 24 hours by the followed users
CountNewPosts(followingIds) == SumPosts(followingIds)

\* parts.join(' and ')
RECURSIVE Join(_, _)
Join(parts, sep) ==
    IF Len(parts) = 0 THEN <<>>
    ELSE IF Len(parts) = 1 THEN parts[1]
    ELSE parts[1] \o <<sep>> \o Join(Tail(parts), sep)

\* the sentence with the plural in every part
DigestBodyAlwaysPlural(unreadCount, newPostCount) ==
    LET p1 == IF unreadCount > 0
              THEN <<<<ToString(unreadCount), " new notification", "s">>>>
              ELSE <<>>
        p2 == IF newPostCount > 0
              THEN <<<<ToString(newPostCount), " new post", "s",
                       " from people you follow">>>>
              ELSE <<>>
    IN  Join(p1 \o p2, " and ")

DigestBody(unreadCount, newPostCount) ==
    LET p1 == IF unreadCount > 0
              THEN <<<<ToString(unreadCount), " new notification",
                       IF unreadCount > 1 THEN "s" ELSE "">>>>
              ELSE <<>>
        p2 == IF newPostCount > 0
              THEN <<<<ToString(newPostCount), " new post",
                       IF newPostCount > 1 THEN "s" ELSE "",
                       " from people you follow">>>>
              ELSE <<>>
    IN  Join(p1 \o p2, " and ")

DigestPushData == PushData("digest", NULL, NULL, NULL, NULL, NULL, NULL)

\* the validated body arrives
Digest(body) ==
    /\ pc = "idle"
    /\ handler' = "digest"
    /\ req' = body
    /\ pc' = "digest_profile"
    /\ UNCHANGED <<store, env, loc, reads, calls, resp>>

\* the profile query resolves
DigestProfile ==
    /\ pc = "digest_profile"
    /\ reads' = Append(reads, "user_profiles:user")
    /\ LET profile == Read("user_profiles:user", QueryProfile(req.userId), NoRow)
       IN  IF ~Truthy(profile.push_token)
           THEN Answer(ErrorReply(404, "No push token for user")) /\ loc' = loc
           ELSE /\ loc' = [loc EXCEPT !.tokens = <<profile.push_token>>]
                /\ pc' = "digest_count" /\ resp' = resp /\ calls' = calls
    /\ UNCHANGED <<store, env, handler, req>>

\* the push of a digest, handed to sendExpoPush
DigestSend(unreadCount, newPostCount) ==
    Dispatch([loc EXCEPT !.unreadCount = unreadCount,
                         !.newPostCount = newPostCount],
             loc.tokens, "KitchenSync", DigestBody(unreadCount, newPostCount),
             DigestPushData)

\* the unread-count query resolves
DigestCount ==
    /\ pc = "digest_count"
    /\ reads' = Append(reads, "notifications:unread24h")
    /\ LET unreadCount == Read("notifications:unread24h",
                               CountUnreadRecent(req.userId), 0)
       IN  IF unreadCount = 0
           THEN /\ Answer(DataReply([sent |-> JBool(FALSE), reason |-> "no_unread"]))
                /\ loc' = loc
           ELSE /\ loc' = [loc EXCEPT !.unreadCount = unreadCount]
                /\ pc' = "digest_follows" /\ resp' = resp /\ calls' = calls
    /\ UNCHANGED <<store, env, handler, req>>

\* the follows query resolves; with nobody followed the push is sent at once
DigestFollows ==
    /\ pc = "digest_follows"
    /\ reads' = Append(reads, "user_follows")
    /\ LET followingIds == Read("user_follows", QueryFollowing(req.userId), {})
       IN  IF followingIds # {}
           THEN /\ loc' = [loc EXCEPT !.followingIds = SelectUsers(followingIds, 1)]
                /\ pc' = "digest_posts" /\ resp' = resp /\ calls' = calls
           ELSE DigestSend(loc.unreadCount, 0)
    /\ UNCHANGED <<store, env, handler, req>>

\* the posts-count query resolves
DigestPosts ==
    /\ pc = "digest_posts"
    /\ reads' = Append(reads, "posts:recent")
    /\ DigestSend(loc.unreadCount,
                  Read("posts:recent", CountNewPosts(Range(loc.followingIds)), 0))
    /\ UNCHANGED <<store, env, handler, req>>

----------------------------------------------------------------------------
(* Conversations: the stores and events of POST /webhook/on-message *)

TokenChoice(u, i) == IF i = 0 THEN NULL ELSE IF i = 1 THEN "" ELSE TokenOf(u)
TriChoice(i) == IF i = 0 THEN NULL ELSE IF i = 1 THEN JTRUE ELSE JFALSE

Members == {"u1", "u2", "u3"}

\* The k-th profile of a conversation member: no row, or a row with one of the
\* three token values and one of the three notify_direct_message values
MemberProfile(u, k) ==
    IF k = 0 THEN NoRow
    ELSE Row(TokenChoice(u, (k - 1) % 3), NameOf(u), TriChoice((k - 1) \div 3),
             NoPrefs)

\* u1..u3 are each outside the conversation, in it, or in it and muted, with
\* any profile; u4 is outside it, with or without a profile.  User ids are
\* opaque to the handlers, so of the stores that differ only by renaming
\* u1..u3 one is kept.
InitMsgStore ==
    \E c \in [Members -> 0..29], s \in BOOLEAN :
        /\ c["u1"] <= c["u2"] /\ c["u2"] <= c["u3"]
        /\ profiles =
              [u \in Users |->
                  IF u \in Members THEN MemberProfile(u, c[u] \div 3)
                  ELSE IF s THEN Row(TokenOf(u), NameOf(u), NULL, NoPrefs)
                  ELSE NoRow]
        /\ participants =
              {[conversation_id |-> Conversation, user_id |-> u,
                is_muted |-> (c[u] % 3 = 2)] : u \in {m \in Members : c[m] % 3 # 0}}
        /\ notifications = NoCounts
        /\ follows = NoFollows
        /\ posts = NoPosts

\* no invocation is running
InitInvocation ==
    /\ pc = "idle"
    /\ handler = NULL
    /\ req = NoReq
    /\ loc = NoLoc
    /\ reads = <<>>
    /\ calls = <<>>
    /\ resp = NoResp

\* no webhook body has arrived and nothing has finished
InitHistory ==
    /\ rawBody = NoBody
    /\ prev = NoPrev

\* no request has come through the middleware
InitHttp ==
    /\ http = NoHttp
    /\ rl = NoEntries
    /\ now = 0
    /\ log = NoPasses

\* no invocation is running and every store query succeeds
InitIdle ==
    /\ InitInvocation
    /\ failing = {}
    /\ InitHistory
    /\ InitHttp

MessageRecord(conversationId, senderId, content, messageType) ==
    [kind |-> "message", conversation_id |-> conversationId,
     sender_id |-> senderId, content |-> content, message_type |-> messageType]

MsgRecords ==
    {MessageRecord(c, s, <<"h", "i">>, Absent) :
        c \in {Conversation, NULL}, s \in Users \cup {NULL}}

InitMsg == InitMsgStore /\ InitIdle

NextMsg ==
    \/ \E record \in MsgRecords : OnMessage(record)
    \/ MsgParticipants
    \/ MsgProfiles
    \/ MsgSender
    \/ \E r \in ProviderResponses : ExpoReturn(r)
    \/ Finish

SpecMsg == InitMsg /\ [][NextMsg]_vars

----------------------------------------------------------------------------
(* Notifications: the stores and events of POST /webhook/on-notification *)

\* every preference flag set to false
AllPrefsFalse == [c \in PrefColumns |-> JFALSE]

\* u1 and u2 have no row, or a row with any token, any notify_recipe_like
\* and a display name or none, or a row with a token and every preference
\* flag false; u3 and u4 have no row
RecipientProfiles(u) ==
    {NoRow} \cup
    {Row(t, n, NULL, [NoPrefs EXCEPT !["notify_recipe_like"] = p]) :
        t \in TokenValues(u), n \in {NULL, NameOf(u)}, p \in Tri} \cup
    {Row(TokenOf(u), NameOf(u), NULL, AllPrefsFalse)}

InitNotifStore ==
    /\ \E p1 \in RecipientProfiles("u1"), p2 \in RecipientProfiles("u2") :
          profiles = [u \in Users |->
                         IF u = "u1" THEN p1 ELSE IF u = "u2" THEN p2 ELSE NoRow]
    /\ participants = {}
    /\ notifications = NoCounts
    /\ follows = NoFollows
    /\ posts = NoPosts

NotificationRecord(userId, type, actorId) ==
    [kind |-> "notification", user_id |-> userId, type |-> type,
     actor_id |-> actorId, target_id |-> "r1", target_type |-> "recipe"]

\* a type with a preference column, a type with a label and no preference
\* column, a type no table knows, a type that is an inherited key of the
\* tables, and no type
NotifTypes == {"like", "new_recipe", "poke", "constructor", NULL}

NotifRecords ==
    {NotificationRecord(u, t, a) :
        u \in {"u1", "u2", "u3", NULL}, t \in NotifTypes,
        a \in {"u1", "u2", "u3", NULL}}

InitNotif == InitNotifStore /\ InitIdle

NextNotif ==
    \/ \E record \in NotifRecords : OnNotification(record)
    \/ NotifRecipient
    \/ NotifActor
    \/ NotifCount
    \/ \E r \in ProviderResponses : ExpoReturn(r)
    \/ Finish

SpecNotif == InitNotif /\ [][NextNotif]_vars

----------------------------------------------------------------------------
(* All five routes of the router over one family of stores *)

\* u1: no row or any token; u2: an empty or a real token; u3: a real token;
\* u4: no row.  u1..u3 are in the conversation, u2 muted or not.  u1 has any
\* number of recent unread notifications and follows nobody or u2.
InitStore ==
    \E p1 \in {NoRow} \cup {Row(t, NameOf("u1"), NULL, NoPrefs) : t \in TokenValues("u1")},
       t2 \in {"", TokenOf("u2")}, m2 \in BOOLEAN,
       n \in 0..MaxUnread, f \in {{}, {"u2"}} :
        /\ profiles = [u \in Users |->
                          IF u = "u1" THEN p1
                          ELSE IF u = "u2" THEN Row(t2, NameOf(u), NULL, NoPrefs)
                          ELSE IF u = "u3" THEN Row(TokenOf(u), NameOf(u), NULL, NoPrefs)
                          ELSE NoRow]
        /\ participants =
              {[conversation_id |-> Conversation, user_id |-> u,
                is_muted |-> (u = "u2" /\ m2)] : u \in Members}
        /\ notifications = [NoCounts EXCEPT !["u1"] = [old |-> 1, recent |-> n]]
        /\ follows = [NoFollows EXCEPT !["u1"] = f]
        /\ posts = [NoPosts EXCEPT !["u2"] = MaxPosts]

PushBodies ==
    {[kind |-> "push", userId |-> u, title |-> "Title", body |-> <<"Body">>,
      data |-> d] : u \in Users, d \in {NoData, EmptyData}}

BatchBodies ==
    {[kind |-> "push/batch", userIds |-> ids, title |-> "Title",
      body |-> <<"Body">>, data |-> NoData] : ids \in SUBSET Users}

DigestBodies == {[kind |-> "digest", userId |-> u] : u \in Users}

Init == InitStore /\ InitIdle

Next ==
    \/ \E record \in NotifRecords : OnNotification(record)
    \/ NotifRecipient
    \/ NotifActor
    \/ NotifCount
    \/ \E record \in MsgRecords : OnMessage(record)
    \/ MsgParticipants
    \/ MsgProfiles
    \/ MsgSender
    \/ \E body \in PushBodies : Push(body)
    \/ PushProfile
    \/ \E body \in BatchBodies : PushBatch(body)
    \/ BatchProfiles
    \/ \E body \in DigestBodies : Digest(body)
    \/ DigestProfile
    \/ DigestCount
    \/ DigestFollows
    \/ DigestPosts
    \/ \E r \in ProviderResponses : ExpoReturn(r)
    \/ Finish

Spec == Init /\ [][Next]_vars

----------------------------------------------------------------------------
(* Both webhooks over stores that vary the preference flags *)

\* u1 has a row with any token, any notify_recipe_like and any
\* notify_direct_message; u2 and u3 have a token and any
\* notify_direct_message; all three are unmuted members of the conversation
InitPrefStore ==
    \E t \in TokenValues("u1"), p \in Tri, d1 \in Tri, d2 \in Tri, d3 \in Tri :
        /\ profiles =
              [u \in Users |->
                  IF u = "u1"
                  THEN Row(t, NameOf(u), d1, [NoPrefs EXCEPT !["notify_recipe_like"] = p])
                  ELSE IF u = "u2" THEN Row(TokenOf(u), NameOf(u), d2, NoPrefs)
                  ELSE IF u = "u3" THEN Row(TokenOf(u), NameOf(u), d3, NoPrefs)
                  ELSE NoRow]
        /\ participants =
              {[conversation_id |-> Conversation, user_id |-> u, is_muted |-> FALSE] :
                  u \in Members}
        /\ notifications = NoCounts
        /\ follows = NoFollows
        /\ posts = NoPosts

InitWebhooks == InitPrefStore /\ InitIdle

NextWebhooks ==
    \/ \E record \in NotifRecords : OnNotification(record)
    \/ NotifRecipient
    \/ NotifActor
    \/ NotifCount
    \/ \E record \in MsgRecords : OnMessage(record)
    \/ MsgParticipants
    \/ MsgProfiles
    \/ MsgSender
    \/ \E r \in ProviderResponses : ExpoReturn(r)
    \/ Finish

SpecWebhooks == InitWebhooks /\ [][NextWebhooks]_vars

----------------------------------------------------------------------------
(* POST /digest over stores that vary the counts *)

\* u1 has a row with any token, any number of unread notifications of the
\* last 24 hours and follows any of u2 and u3, each of whom has any number
\* of recent posts
InitDigestStore ==
    \E t \in TokenValues("u1"), n \in 0..MaxDigestUnread,
       f \in SUBSET {"u2", "u3"}, n2 \in 0..MaxPosts, n3 \in 0..MaxPosts :
        /\ profiles = [u \in Users |->
                          IF u = "u4" THEN NoRow
                          ELSE Row(IF u = "u1" THEN t ELSE TokenOf(u),
                                   NameOf(u), NULL, NoPrefs)]
        /\ participants = {}
        /\ notifications = [NoCounts EXCEPT !["u1"] = [old |-> 0, recent |-> n]]
        /\ follows = [NoFollows EXCEPT !["u1"] = f]
        /\ posts = [NoPosts EXCEPT !["u2"] = n2, !["u3"] = n3]

InitDigest == InitDigestStore /\ InitIdle

NextDigest ==
    \/ \E body \in DigestBodies : Digest(body)
    \/ DigestProfile
    \/ DigestCount
    \/ DigestFollows
    \/ DigestPosts
    \/ \E r \in ProviderResponses : ExpoReturn(r)
    \/ Finish

SpecDigest == InitDigest /\ [][NextDigest]_vars

----------------------------------------------------------------------------
(* POST /webhook/on-message over events that vary content and type *)

\* u1 and u2 are the unmuted members of the conversation and have a token
InitPreviewStore ==
    /\ profiles = [u \in Users |->
                      IF u \in {"u1", "u2"}
                      THEN Row(TokenOf(u), NameOf(u), NULL, NoPrefs)
                      ELSE NoRow]
    /\ participants =
          {[conversation_id |-> Conversation, user_id |-> u, is_muted |-> FALSE] :
              u \in {"u1", "u2"}}
    /\ notifications = NoCounts
    /\ follows = NoFollows
    /\ posts = NoPosts

\* a content of n characters, the digits in turn
Content(n) == [i \in 1..n |-> ToString(i % 10)]

RECIPE == <<"r", "e", "c", "i", "p", "e">>
SHOPPING_LIST ==
    <<"s", "h", "o", "p", "p", "i", "n", "g", "_", "l", "i", "s", "t">>
MEAL_PLAN_DAY ==
    <<"m", "e", "a", "l", "_", "p", "l", "a", "n", "_", "d", "a", "y">>

\* a type so long that 'Shared ' and the type pass the limit
LongType == [i \in 1..PreviewLimit |-> "z"]

\* no type, the empty type, text, image, and types with no, one and two
\* underscores
PreviewTypes ==
    {Absent, <<>>, TEXT, IMAGE, RECIPE, SHOPPING_LIST, MEAL_PLAN_DAY, LongType}

PreviewRecords ==
    {MessageRecord(Conversation, "u1", c, t) :
        c \in {Absent} \cup {Content(n) : n \in 0..MaxContentLen},
        t \in PreviewTypes}

InitPreview == InitPreviewStore /\ InitIdle

NextPreview ==
    \/ \E record \in PreviewRecords : OnMessage(record)
    \/ MsgParticipants
    \/ MsgProfiles
    \/ MsgSender
    \/ \E r \in ProviderResponses : ExpoReturn(r)
    \/ Finish

SpecPreview == InitPreview /\ [][NextPreview]_vars

----------------------------------------------------------------------------
(* The webhooks from the request body on *)

\* What a webhook request can carry as its body:
\*   invalid     text that is not JSON (the empty body included)
\*   null        the JSON value null
\*   bare        a JSON object that is the row itself
\*   envelope    a JSON object whose `record` is the row
\*   nullrecord  a JSON object whose `record` is null and that has no other key
BodyKinds == {"invalid", "null", "bare", "envelope", "nullrecord"}

\* a key that the JSON object does not have, or has as null
NoRecord == [undefined |-> TRUE]

\* The parsed body as the handlers look at it: the value of its key `record`
\* and the row made of its other keys.  Of a body without a row both are
\* missing.
RequestBody(kind, record) ==
    [kind |-> kind,
     payload |-> [record |-> IF kind = "envelope" THEN record ELSE NoRecord,
                  own |-> IF kind = "bare" THEN record ELSE NoRecord]]

\* the row of a JSON object without any of the keys the handlers read
EmptyNotification ==
    [kind |-> "notification", user_id |-> NULL, type |-> NULL,
     actor_id |-> NULL, target_id |-> NULL, target_type |-> NULL]

EmptyMessage == MessageRecord(NULL, NULL, Absent, Absent)

\* await c.req.json() rejects, or payload.record is read off null
BodyThrows(body) == body.kind \in {"invalid", "null"}

\* the record read off the body itself whatever its key `record` holds
RecordOfOwnKeys(body, empty) ==
    IF body.payload.own # NoRecord THEN body.payload.own ELSE empty

\* payload.record ?? payload; empty is the row of an object that has none of
\* the keys the handler reads
RecordOf(body, empty) ==
    IF body.payload.record # NoRecord THEN body.payload.record
    ELSE IF body.payload.own # NoRecord THEN body.payload.own
    ELSE empty

\* catch (err) { return c.json({ error: 'Internal error' }, 500) }
InternalError(h, body) ==
    /\ pc = "idle"
    /\ handler' = h
    /\ req' = [kind |-> "unparsed", body |-> body.kind]
    /\ Answer(ErrorReply(500, "Internal error"))
    /\ rawBody' = body
    /\ UNCHANGED <<store, loc, reads, failing, prev, http, rl, now, log>>

\* POST /webhook/on-notification with its body
NotificationRequest(body) ==
    IF BodyThrows(body)
    THEN InternalError("on-notification", body)
    ELSE /\ NotificationStart(RecordOf(body, EmptyNotification))
         /\ rawBody' = body
         /\ UNCHANGED <<failing, prev, http, rl, now, log>>

\* POST /webhook/on-message with its body
MessageRequest(body) ==
    IF BodyThrows(body)
    THEN InternalError("on-message", body)
    ELSE /\ MessageStart(RecordOf(body, EmptyMessage))
         /\ rawBody' = body
         /\ UNCHANGED <<failing, prev, http, rl, now, log>>

\* the bodies without a row, and rows with and without their required keys
\* both bare and in the envelope
Bodies(records, empty) ==
    {RequestBody(k, empty) : k \in {"invalid", "null", "nullrecord"}}
    \cup {RequestBody(k, r) : k \in {"bare", "envelope"}, r \in records \cup {empty}}

NotificationBodies ==
    Bodies({NotificationRecord(u, t, a) :
               u \in {"u1", NULL}, t \in {"like", NULL}, a \in {"u2", NULL}},
           EmptyNotification)

MessageBodies ==
    Bodies({MessageRecord(c, s, <<"h", "i">>, Absent) :
               c \in {Conversation, NULL}, s \in {"u1", NULL}},
           EmptyMessage)

InitRequests == InitPrefStore /\ InitIdle

NextRequests ==
    \/ \E body \in NotificationBodies : NotificationRequest(body)
    \/ NotifRecipient
    \/ NotifActor
    \/ NotifCount
    \/ \E body \in MessageBodies : MessageRequest(body)
    \/ MsgParticipants
    \/ MsgProfiles
    \/ MsgSender
    \/ \E r \in ProviderResponses : ExpoReturn(r)
    \/ Finish

SpecRequests == InitRequests /\ [][NextRequests]_vars

----------------------------------------------------------------------------
(* All five routes with a store that answers and a provider that may not *)

\* the steps that the runtime and the store take on their own: a store query
\* resolves and the code after it runs, or the response goes out
HandlerStep ==
    \/ NotifRecipient
    \/ NotifActor
    \/ NotifCount
    \/ MsgParticipants
    \/ MsgProfiles
    \/ MsgSender
    \/ PushProfile
    \/ BatchProfiles
    \/ DigestProfile
    \/ DigestCount
    \/ DigestFollows
    \/ DigestPosts
    \/ Finish

\* Every store query is answered and every answered invocation returns.  The
\* fetch of sendExpoPush carries no signal and no timeout, so nothing makes
\* it settle: there is no fairness on ExpoReturn.
SpecProviderMaySilence == Init /\ [][Next]_vars /\ WF_vars(HandlerStep)

----------------------------------------------------------------------------
(* Both webhooks over a store whose queries can fail *)

\* the queries of the two webhook handlers, by the name they are logged with
WebhookReads ==
    {"user_profiles:recipient", "user_profiles:actor", "notifications:unread",
     "conversation_participants", "user_profiles:recipients",
     "user_profiles:sender"}

\* any of the queries of the webhooks fails, for as long as the behaviour lasts
InitFailures ==
    /\ InitPreviewStore
    /\ InitInvocation
    /\ failing \in SUBSET WebhookReads
    /\ InitHistory
    /\ InitHttp

SpecFailures == InitFailures /\ [][NextWebhooks]_vars

----------------------------------------------------------------------------
(* The webhooks delivered again and again over an unchanged store *)

\* u1, the recipient of the notifications and the sender of the messages,
\* has a token or none and notify_recipe_like unset or false; u2, the other
\* member of the conversation, has a token and is muted or not
InitReplayStore ==
    \E t \in {NULL, TokenOf("u1")}, p \in {NULL, JFALSE}, m \in BOOLEAN :
        /\ profiles =
              [u \in Users |->
                  IF u = "u1"
                  THEN Row(t, NameOf(u), NULL, [NoPrefs EXCEPT !["notify_recipe_like"] = p])
                  ELSE IF u = "u2" THEN Row(TokenOf(u), NameOf(u), NULL, NoPrefs)
                  ELSE NoRow]
        /\ participants =
              {[conversation_id |-> Conversation, user_id |-> u,
                is_muted |-> (u = "u2" /\ m)] : u \in {"u1", "u2"}}
        /\ notifications = NoCounts
        /\ follows = NoFollows
        /\ posts = NoPosts

InitReplay == InitReplayStore /\ InitIdle

NextReplay ==
    \/ \E b \in NotificationBodies : NotificationRequest(b)
    \/ NotifRecipient
    \/ NotifActor
    \/ NotifCount
    \/ \E b \in MessageBodies : MessageRequest(b)
    \/ MsgParticipants
    \/ MsgProfiles
    \/ MsgSender
    \/ \E r \in ProviderResponses : ExpoReturn(r)
    \/ FinishKept

SpecReplay == InitReplay /\ [][NextReplay]_vars

----------------------------------------------------------------------------
(* The middleware of the app: cors, logger, auth, rate limiter, routes *)

Methods == {"GET", "POST", "OPTIONS"}

\* the segments of a path whose second segment begins with `sample`
SampleNames == {"sample", "samples"}

\* paths by their segments
Paths ==
    {<<"health">>, <<"health", "x">>, <<"nonexistent">>,
     <<"api", "sample">>, <<"api", "samples">>,
     <<"api", "business">>, <<"api", "business", "slug", "x">>,
     <<"api", "menu", "m1">>, <<"api", "menu", "m1", "public">>,
     <<"api", "reservations", "r1", "availability">>,
     <<"api", "ai", "chat">>, <<"api", "notifications", "digest">>,
     <<"api", "nonexistent">>}

\* The Authorization header by what requireAuth makes of it:
\*   none     no header           basic   a header that is no `Bearer ` one
\*   invalid  getUser answers an error or no user
\*   throws   getUser throws      valid   getUser answers the user
AuthHeaders ==
    {[kind |-> k, user |-> NULL] : k \in {"none", "basic", "invalid", "throws"}}
    \cup {[kind |-> "valid", user |-> u] : u \in Keys}

HttpRequests ==
    {[method |-> m, path |-> p, auth |-> a] :
        m \in Methods, p \in Paths, a \in AuthHeaders}

\* PUBLIC_PATHS.some(pattern => pattern.test(path))
isPublicPath(path) ==
    \/ path = <<"health">>
    \/ Len(path) >= 2 /\ path[1] = "api" /\ path[2] \in SampleNames
    \/ Len(path) >= 4 /\ SubSeq(path, 1, 3) = <<"api", "business", "slug">>
    \/ Len(path) = 4 /\ path[1] = "api" /\ path[2] = "menu" /\ path[4] = "public"
    \/ Len(path) = 4 /\ path[1] = "api" /\ path[2] = "reservations"
       /\ path[4] = "availability"

\* requireAuth: the message of its 401, or null when it sets the user
requireAuth(auth) ==
    IF auth.kind \in {"none", "basic"} THEN "Missing authorization token"
    ELSE IF auth.kind = "invalid" THEN "Invalid or expired token"
    ELSE IF auth.kind = "throws" THEN "Authentication failed"
    ELSE NULL

\* the routers mounted under /api
Routers ==
    {"sample", "business", "reservations", "menu", "orders", "customers",
     "analytics", "ai", "notifications"}

\* a route of the app takes the request; what a router does with the rest of
\* the path is its own matter
Routed(method, path) ==
    \/ method = "GET" /\ path = <<"health">>
    \/ Len(path) >= 2 /\ path[1] = "api" /\ path[2] \in Routers

\* keyGenerator: user?.id || c.req.header("x-forwarded-for") || "anonymous",
\* for requests that carry no x-forwarded-for header
keyGenerator(user) == IF user # NULL THEN user ELSE "anonymous"

\* let entry = store.get(key); if (!entry || now >= entry.resetAt) entry = ...
Entry(key) ==
    IF ~rl[key].present \/ now >= rl[key].resetAt
    THEN [present |-> TRUE, count |-> 0, resetAt |-> now + windowMs]
    ELSE rl[key]

\* entry.count++
Counted(key) == [Entry(key) EXCEPT !.count = @ + 1]

\* the answer of a middleware or of the router
HttpAnswer(r, ran, status, code, user) ==
    [stage |-> "answered", req |-> r, ran |-> ran, status |-> status,
     code |-> code, user |-> user]

\* the auth middleware that lets every request through
AuthSkipped(r) == [ran |-> <<"auth">>, user |-> r.auth.user, denied |-> FALSE]

\* app.use("/api/*", ...): public paths go on, the others through requireAuth
Auth(r) ==
    IF isPublicPath(r.path)
    THEN [ran |-> <<"auth">>, user |-> NULL, denied |-> FALSE]
    ELSE [ran |-> <<"auth">>, user |-> r.auth.user,
          denied |-> requireAuth(r.auth) # NULL]

\* One request through the app, in the order the middleware is registered:
\* cors answers a preflight itself; auth on /api/*; the rate limiter on
\* /api/ai/*; then the route or the 404 of the app.
HttpRequest(r) ==
    LET api == Len(r.path) >= 1 /\ r.path[1] = "api"
        ai == Len(r.path) >= 2 /\ r.path[1] = "api" /\ r.path[2] = "ai"
        a == Auth(r)
        key == keyGenerator(a.user)
        first == <<"cors", "logger">> \o (IF api THEN a.ran ELSE <<>>)
    IN  /\ pc = "idle"
        /\ IF r.method = "OPTIONS"
           THEN /\ http' = HttpAnswer(r, <<"cors">>, 204, "PREFLIGHT", NULL)
                /\ UNCHANGED <<rl, log>>
           ELSE IF api /\ a.denied
           THEN /\ http' = HttpAnswer(r, first, 401, "UNAUTHORIZED", NULL)
                /\ UNCHANGED <<rl, log>>
           ELSE IF ai
           THEN /\ key \in Keys
                /\ Entry(key).count < limit + MaxOver
                /\ rl' = [rl EXCEPT ![key] = Counted(key)]
                /\ IF Counted(key).count > limit
                   THEN /\ http' = HttpAnswer(r, first \o <<"rateLimiter">>, 429,
                                              "RATE_LIMITED", a.user)
                        /\ log' = log
                   ELSE /\ http' = HttpAnswer(r, first \o <<"rateLimiter", "route">>,
                                              200, "ROUTE", a.user)
                        /\ log' = [log EXCEPT ![key][now] = @ + 1]
           ELSE /\ IF Routed(r.method, r.path)
                   THEN http' = HttpAnswer(r, first \o <<"route">>, 200, "ROUTE", a.user)
                   ELSE http' = HttpAnswer(r, first \o <<"notFound">>, 404,
                                           "NOT_FOUND", a.user)
                /\ UNCHANGED <<rl, log>>
        /\ UNCHANGED <<store, pc, handler, req, loc, reads, calls, resp,
                       failing, rawBody, prev, now>>

\* Date.now() moves on
Tick ==
    /\ now < MaxTime
    /\ now' = now + 1
    /\ UNCHANGED <<store, pc, handler, req, loc, reads, calls, resp,
                   failing, rawBody, prev, http, rl, log>>

\* setInterval(..., opts.windowMs * 2): the expired entries are deleted
Cleanup ==
    /\ rl' = [k \in Keys |->
                 IF rl[k].present /\ now >= rl[k].resetAt THEN NoEntry ELSE rl[k]]
    /\ UNCHANGED <<store, pc, handler, req, loc, reads, calls, resp,
                   failing, rawBody, prev, http, now, log>>

InitApp == InitPreviewStore /\ InitIdle

\* every request, at one instant
NextAuth == \E r \in HttpRequests : HttpRequest(r)

SpecAuth == InitApp /\ [][NextAuth]_vars

\* the requests of the authenticated users to the rate-limited routes
LimitedRequests ==
    {r \in HttpRequests :
        r.method = "GET" /\ r.path = <<"api", "ai", "chat">> /\ r.auth.kind = "valid"}

NextLimiter ==
    \/ \E r \in LimitedRequests : HttpRequest(r)
    \/ Tick
    \/ Cleanup

SpecLimiter == InitApp /\ [][NextLimiter]_vars

----------------------------------------------------------------------------
(* Settings changed by the client while a webhook runs *)

\* the columns a user changes in the app: the mute flag of the conversation,
\* two preference flags and the push token
Settings == {"is_muted", "notify_direct_message", "notify_recipe_like", "push_token"}

\* An update of the store by the client of user u, between two awaits of a
\* handler: the setting goes to the value that excludes u from pushes.
SettingsUpdate(u, setting) ==
    /\ profiles[u].exists
    /\ IF setting = "is_muted"
       THEN /\ \E p \in participants : p.user_id = u /\ ~p.is_muted
            /\ participants' =
                  {IF p.user_id = u THEN [p EXCEPT !.is_muted = TRUE] ELSE p :
                      p \in participants}
            /\ profiles' = profiles
       ELSE /\ participants' = participants
            /\ profiles' = [profiles EXCEPT ![u] =
                  IF setting = "notify_direct_message"
                  THEN [@ EXCEPT !.notify_direct_message = JFALSE]
                  ELSE IF setting = "notify_recipe_like"
                  THEN [@ EXCEPT !.prefs["notify_recipe_like"] = JFALSE]
                  ELSE [@ EXCEPT !.push_token = NULL]]
            /\ profiles' # profiles
    /\ UNCHANGED <<notifications, follows, posts, pc, handler, req, loc, reads,
                   calls, resp, env>>

\* a message of u1 in the conversation and a like of u1 on a recipe of u2
SettingsRecords ==
    {MessageRecord(Conversation, "u1", <<"h", "i">>, Absent),
     NotificationRecord("u2", "like", "u1")}

InitSettings == InitPreviewStore /\ InitIdle

NextSettings ==
    \/ \E record \in SettingsRecords :
          IF record.kind = "message" THEN OnMessage(record) ELSE OnNotification(record)
    \/ NotifRecipient
    \/ NotifActor
    \/ NotifCount
    \/ MsgParticipants
    \/ MsgProfiles
    \/ MsgSender
    \/ \E r \in ProviderResponses : ExpoReturn(r)
    \/ Finish
    \/ \E setting \in Settings : SettingsUpdate("u2", setting)

SpecSettings == InitSettings /\ [][NextSettings]_vars

----------------------------------------------------------------------------
(* Properties *)

\* the tokens the provider has been asked to push to in this invocation
SentTo == UNION {{calls[i][j].to : j \in DOMAIN calls[i]} : i \in DOMAIN calls}

\* the rows of the conversation of the running on-message invocation
ConversationRows == {p \in participants : p.conversation_id = req.conversation_id}

\* C1: a recipient whose mapped preference is explicitly false is never
\* pushed to.  on-notification: when the recipient has a token and the column
\* of the event's type is false, no provider call is made and the answer is
\* {skipped, user_preference_disabled}.  on-message: the token of a profile
\* with notify_direct_message false is in no dispatched message.
PreferenceFalseNeverPushed ==
    /\ handler = "on-notification" /\ req.user_id \in Users
       /\ req.type \in DOMAIN TYPE_TO_PREF
       /\ profiles[req.user_id].exists
       /\ profiles[req.user_id].push_token \notin {NULL, ""}
       /\ profiles[req.user_id].prefs[TYPE_TO_PREF[req.type]] = JFALSE
       => /\ calls = <<>>
          /\ pc = "done" => resp = Skipped("user_preference_disabled")
    /\ handler = "on-message"
       => \A u \in Users :
            profiles[u].exists /\ profiles[u].notify_direct_message = JFALSE
            => profiles[u].push_token \notin SentTo

\* Scenario B has run to its answer
PreferenceFalseSkipped ==
    /\ handler = "on-notification" /\ pc = "done"
    /\ req.type = "like" /\ req.user_id = "u1" /\ req.actor_id = "u2"
    /\ profiles["u1"].push_token = TokenOf("u1")
    /\ profiles["u1"].prefs["notify_recipe_like"] = JFALSE
    /\ resp = Skipped("user_preference_disabled")

\* C2: on-message never pushes to a muted participant, whatever that
\* participant's preference flags and token are.
MutedNeverPushed ==
    handler = "on-message"
    => \A p \in ConversationRows :
          p.is_muted
          => /\ profiles[p.user_id].push_token \notin SentTo
             /\ p.user_id \notin Range(loc.recipientIds)

\* a push went out while a muted participant had a token and had direct
\* messages enabled
MutedLeftOut ==
    /\ handler = "on-message" /\ calls # <<>>
    /\ \E p \in ConversationRows :
          /\ p.is_muted /\ p.user_id # req.sender_id
          /\ profiles[p.user_id].push_token = TokenOf(p.user_id)
          /\ profiles[p.user_id].notify_direct_message = JTRUE

\* the participants the push of the running on-message invocation is for
EligibleRecipients ==
    {u \in Users :
        /\ u # req.sender_id
        /\ \E p \in ConversationRows : p.user_id = u /\ ~p.is_muted
        /\ profiles[u].exists
        /\ profiles[u].push_token \notin {NULL, ""}
        /\ profiles[u].notify_direct_message # JFALSE}

\* C3: the tokens on-message hands to the dispatcher are exactly the tokens
\* of the participants that are not the sender, not muted, have a non-empty
\* token and have not set notify_direct_message to false, one message each;
\* the sender is never pushed to.
ExactRecipients ==
    handler = "on-message" /\ Truthy(req.conversation_id) /\ Truthy(req.sender_id)
    => /\ pc \in {"fetch", "done"}
          => /\ SentTo = {profiles[u].push_token : u \in EligibleRecipients}
             /\ \A i \in DOMAIN calls : Len(calls[i]) = Cardinality(EligibleRecipients)
             /\ (EligibleRecipients # {}) = (calls # <<>>)
       /\ req.sender_id \in Users /\ profiles[req.sender_id].exists
          => profiles[req.sender_id].push_token \notin SentTo

\* Scenario C: three participants besides the sender, one muted, one with
\* direct messages disabled; one token is dispatched
ScenarioC ==
    /\ handler = "on-message" /\ pc = "fetch"
    /\ req.sender_id = "u4"
    /\ Cardinality(ConversationRows) = 3
    /\ Cardinality({p \in ConversationRows : p.is_muted}) = 1
    /\ Cardinality({p \in ConversationRows :
                      /\ ~p.is_muted
                      /\ profiles[p.user_id].notify_direct_message = JFALSE}) = 1
    /\ \A p \in ConversationRows : profiles[p.user_id].push_token = TokenOf(p.user_id)
    /\ Len(calls) = 1 /\ Len(calls[1]) = 1

\* the skip reason the stages of on-message name for the running invocation,
\* or "none" when a recipient is left
ExpectedMessageSkip ==
    LET others == {p \in ConversationRows : p.user_id # req.sender_id}
        unmuted == {p \in others : ~p.is_muted}
        withToken == {p \in unmuted :
                        /\ profiles[p.user_id].exists
                        /\ profiles[p.user_id].push_token \notin {NULL, ""}}
        dmOn == {p \in withToken :
                    profiles[p.user_id].notify_direct_message # JFALSE}
    IN  IF ~Truthy(req.conversation_id) \/ ~Truthy(req.sender_id) THEN "missing fields"
        ELSE IF others = {} THEN "no_recipients"
        ELSE IF unmuted = {} THEN "all_muted"
        ELSE IF withToken = {} THEN "no_push_tokens"
        ELSE IF dmOn = {} THEN "all_dm_disabled"
        ELSE "none"

\* C10: on-message answers with the skip reason of the first stage that
\* leaves no recipient (missing fields, no_recipients, all_muted,
\* no_push_tokens, all_dm_disabled), each only when its condition holds, and
\* a skip makes no provider call.
MessageSkipReasons ==
    handler = "on-message" /\ pc = "done"
    => IF ExpectedMessageSkip = "none"
       THEN resp.kind = "data"
       ELSE resp = Skipped(ExpectedMessageSkip) /\ calls = <<>>

\* the {sent, failed} the running invocation answers with
AnsweredResult ==
    IF handler = "digest"
    THEN [sent |-> resp.data.sent.value, failed |-> resp.data.failed.value]
    ELSE resp.data

\* C4: sendExpoPush called with no token answers {sent: 0, failed: 0} and
\* makes no provider call.
EmptyTokensNoCall ==
    loc.called /\ Len(loc.tokens) = 0
    => /\ calls = <<>>
       /\ pc = "done"
       /\ AnsweredResult = [sent |-> 0, failed |-> 0]

\* a batch for users that have rows and no usable token has been answered
EmptyBatchAnswered ==
    /\ handler = "push/batch" /\ pc = "done"
    /\ req.userIds = {"u1", "u2"}
    /\ profiles["u1"].push_token = "" /\ profiles["u2"].push_token = ""
    /\ loc.called /\ loc.tokens = <<>>

\* C5: whenever the provider call was made, sent + failed is the number of
\* tokens, for every provider response, and sent is the number of tickets
\* with status ok.
SentPlusFailedIsTokens ==
    pc = "done" /\ calls # <<>>
    => /\ AnsweredResult.sent + AnsweredResult.failed = Len(loc.tokens)
       /\ AnsweredResult.sent =
             Cardinality({i \in DOMAIN loc.response.tickets :
                            loc.response.tickets[i] = "ok"})

\* two tokens were sent and the provider answered one ticket
ShortTicketList ==
    /\ pc = "done" /\ Len(loc.tokens) = 2
    /\ loc.response = [kind |-> "tickets", tickets |-> <<"ok">>]
    /\ resp = DataReply([sent |-> 1, failed |-> 1])

\* C6: sent >= 0, failed >= 0 and sent <= tokens.length for every token list
\* and every provider response.
DispatchResultBounds ==
    pc = "done" /\ loc.called
    => /\ AnsweredResult.sent >= 0
       /\ AnsweredResult.failed >= 0
       /\ AnsweredResult.sent <= Len(loc.tokens)

\* C7: when the provider call fails (transport error, non-success status,
\* unparseable or ill-shaped body) the result is {sent: 0, failed:
\* tokens.length}, the handler answers 200 with it, and the provider was
\* called once.
ProviderFailureIsSoft ==
    /\ pc = "done" /\ calls # <<>>
    /\ loc.response.kind \in {"throw", "status", "badjson", "illshaped"}
    => /\ Len(calls) = 1
       /\ resp.status = 200 /\ resp.kind = "data"
       /\ AnsweredResult = [sent |-> 0, failed |-> Len(loc.tokens)]

\* a fetch for two tokens rejected and the handler has answered
TransportFailureAnswered ==
    /\ pc = "done" /\ Len(loc.tokens) = 2
    /\ loc.response.kind = "throw"
    /\ resp = DataReply([sent |-> 0, failed |-> 2])

\* C8: an invocation of any of the five handlers makes at most one provider
\* call; when it dispatches a non-empty token list it makes exactly one, with
\* one message {to, sound: 'default', title, body, data} per token.
OneCallPerInvocation ==
    /\ Len(calls) <= 1
    /\ ~loc.called => calls = <<>>
    /\ loc.called /\ loc.tokens # <<>>
       => /\ Len(calls) = 1
          /\ Len(calls[1]) = Len(loc.tokens)
          /\ \A i \in DOMAIN calls[1] :
                calls[1][i] =
                    [to |-> loc.tokens[i], sound |-> "default",
                     title |-> loc.title, body |-> loc.body,
                     data |-> IF loc.data = NoData THEN EmptyData ELSE loc.data]

\* one fetch carrying three messages is in flight
BatchedCall ==
    /\ pc = "fetch" /\ Len(loc.tokens) = 3
    /\ Len(calls) = 1 /\ Len(calls[1]) = 3

\* C9: on-notification decides its skips in a fixed order: no user_id before
\* any store read; then no_push_token for a missing row or a null or empty
\* token, also when the preference is false; then user_preference_disabled.
\* A skip reads at most the recipient row and calls the provider never.
NotificationSkipOrder ==
    handler = "on-notification" /\ pc = "done"
    => LET rcp == IF req.user_id \in Users THEN profiles[req.user_id] ELSE NoRow
           noToken == ~rcp.exists \/ rcp.push_token \in {NULL, ""}
           prefFalse == /\ req.type \in DOMAIN TYPE_TO_PREF
                        /\ rcp.prefs[TYPE_TO_PREF[req.type]] = JFALSE
       IN  IF req.user_id = NULL
           THEN resp = Skipped("no user_id") /\ reads = <<>> /\ calls = <<>>
           ELSE IF noToken
           THEN /\ resp = Skipped("no_push_token")
                /\ reads = <<"user_profiles:recipient">> /\ calls = <<>>
           ELSE IF prefFalse
           THEN /\ resp = Skipped("user_preference_disabled")
                /\ reads = <<"user_profiles:recipient">> /\ calls = <<>>
           ELSE IF req.type \in DOMAIN ObjectPrototype
           THEN /\ resp = Skipped("no_push_token")
                /\ reads = <<"user_profiles:recipient">> /\ calls = <<>>
           ELSE resp.kind = "data"

\* a recipient with an empty token and the preference set to false was
\* answered no_push_token
NoTokenBeforePreference ==
    /\ handler = "on-notification" /\ pc = "done"
    /\ req.type = "like" /\ req.user_id = "u1"
    /\ profiles["u1"].exists /\ profiles["u1"].push_token = ""
    /\ profiles["u1"].prefs["notify_recipe_like"] = JFALSE
    /\ resp = Skipped("no_push_token")

\* the user of the running digest has a usable push token
DigestUserHasToken ==
    /\ handler = "digest"
    /\ profiles[req.userId].exists
    /\ profiles[req.userId].push_token \notin {NULL, ""}

\* C11: a digest for a user who has a push token and no unread notification
\* of the last 24 hours answers {sent: false, reason: 'no_unread'}, calls the
\* provider zero times and queries neither the follows nor the posts.
DigestNoUnreadShortCircuit ==
    (DigestUserHasToken /\ notifications[req.userId].recent = 0)
    => /\ pc \in {"digest_profile", "digest_count", "done"}
       /\ calls = <<>>
       /\ ~loc.called
       /\ "user_follows" \notin Range(reads)
       /\ "posts:recent" \notin Range(reads)
       /\ pc = "done" =>
             /\ resp = DataReply([sent |-> JBool(FALSE), reason |-> "no_unread"])
             /\ reads = <<"user_profiles:user", "notifications:unread24h">>

\* a digest answered for a user with a token whose only unread notification
\* is older than 24 hours
DigestOnlyOldUnread ==
    /\ DigestUserHasToken
    /\ pc = "done"
    /\ notifications[req.userId].recent = 0
    /\ notifications[req.userId].old > 0
    /\ resp.kind = "data"

\* C12: a digest for a user without a profile row or without a push token
\* answers 404 {error: 'No push token for user'}, which is neither a skip nor
\* the no_unread answer, after the profile query alone: no count query and
\* no provider call, whatever the unread count.
DigestNoTokenNotFound ==
    (/\ handler = "digest"
     /\ \/ ~profiles[req.userId].exists
        \/ profiles[req.userId].push_token \in {NULL, ""})
    => /\ pc \in {"digest_profile", "done"}
       /\ calls = <<>>
       /\ ~loc.called
       /\ pc = "done" =>
             /\ resp = [status |-> 404, kind |-> "error",
                        error |-> "No push token for user"]
             /\ resp.kind \notin {"skipped", "data"}
             /\ reads = <<"user_profiles:user">>

\* a digest answered for a user whose token is the empty string and who has
\* unread notifications of the last 24 hours
DigestEmptyTokenWithUnread ==
    /\ handler = "digest"
    /\ pc = "done"
    /\ profiles[req.userId].exists
    /\ profiles[req.userId].push_token = ""
    /\ notifications[req.userId].recent > 0
    /\ resp.status = 404

\* the pieces of a text that are not empty
Chunks(s) == SelectSeq(s, LAMBDA c : c # "")

\* the sentence of a digest with u unread notifications and p new posts
DigestSentence(u, p) ==
    <<ToString(u), " new notification">>
    \o (IF u > 1 THEN <<"s">> ELSE <<>>)
    \o (IF p > 0
        THEN <<" and ", ToString(p), " new post">>
             \o (IF p > 1 THEN <<"s">> ELSE <<>>)
             \o <<" from people you follow">>
        ELSE <<>>)

\* C13: the body of a dispatched digest names the u >= 1 unread notifications
\* of the last 24 hours first ('u new notification', 's' exactly when u > 1)
\* and then, exactly when p > 0, ' and p new post' ('s' exactly when p > 1)
\* ' from people you follow'; p is the number of recent posts of the followed
\* users and is 0, without a posts query, when the user follows nobody.
DigestBodyText ==
    (handler = "digest" /\ loc.called)
    => LET u == notifications[req.userId].recent
           f == follows[req.userId]
           p == IF f = {} THEN 0 ELSE SumPosts(f)
       IN  /\ u >= 1
           /\ loc.unreadCount = u
           /\ loc.newPostCount = p
           /\ Chunks(loc.body) = DigestSentence(u, p)
           /\ Len(calls) = 1 /\ Len(calls[1]) = 1
           /\ calls[1][1].body = loc.body
           /\ f = {} => "posts:recent" \notin Range(reads)

\* scenario D: a digest dispatched with five unread notifications for a user
\* whose followed users have no recent post
DigestScenarioD ==
    /\ handler = "digest"
    /\ pc = "done"
    /\ loc.called
    /\ follows[req.userId] # {}
    /\ loc.unreadCount = 5
    /\ loc.newPostCount = 0
    /\ Chunks(loc.body) = <<"5", " new notification", "s">>

\* C14: a digest that reached the dispatch answers a result whose `sent` is
\* the flag true, next to the failed count of the dispatcher, and its one
\* push is tagged type 'digest', whatever the provider answered.
DigestSentFlagTrue ==
    (handler = "digest" /\ pc = "done" /\ loc.called)
    => /\ resp.kind = "data"
       /\ resp.data.sent.type = "boolean"
       /\ resp.data.sent.value = JTRUE
       /\ resp.data.failed = JNum(ExpoResult(loc.tokens, loc.response).failed)
       /\ Len(calls) = 1 /\ Len(calls[1]) = 1
       /\ calls[1][1].data.type = "digest"

\* what the code does instead: `sent` is the dispatcher's sent count, a number
DigestSentIsCount ==
    (handler = "digest" /\ pc = "done" /\ loc.called)
    => /\ resp.kind = "data"
       /\ resp.data.sent = JNum(ExpoResult(loc.tokens, loc.response).sent)
       /\ resp.data.failed = JNum(ExpoResult(loc.tokens, loc.response).failed)
       /\ Len(calls) = 1 /\ Len(calls[1]) = 1
       /\ calls[1][1].data.type = "digest"

\* the recipient of the running on-notification has a usable push token
RecipientHasToken ==
    /\ handler = "on-notification"
    /\ req.user_id \in Users
    /\ profiles[req.user_id].exists
    /\ profiles[req.user_id].push_token \notin {NULL, ""}

\* the answered on-notification pushed once with the fallback label and the
\* fallback channel
FallbackPushed ==
    /\ resp.kind = "data"
    /\ Len(calls) = 1 /\ Len(calls[1]) = 1
    /\ calls[1][1].to = profiles[req.user_id].push_token
    /\ calls[1][1].body = <<loc.actorName, " ", "sent you a notification">>
    /\ calls[1][1].data.channelId = "social"

\* C15: an event whose type is no key of the label and channel tables, an
\* absent type included, for a recipient with a token is never skipped and
\* never fails: whatever the preference flags, one push goes out with the
\* label 'sent you a notification' and the channel 'social'.
UnknownTypeFallsBack ==
    (/\ RecipientHasToken
     /\ pc = "done"
     /\ req.type \notin DOMAIN NOTIFICATION_LABELS
     /\ req.type \notin DOMAIN TYPE_TO_CHANNEL)
    => FallbackPushed

\* the same for the types that are not inherited keys either
UnknownOwnTypeFallsBack ==
    (/\ RecipientHasToken
     /\ pc = "done"
     /\ req.type \notin DOMAIN NOTIFICATION_LABELS
     /\ req.type \notin DOMAIN TYPE_TO_CHANNEL
     /\ req.type \notin DOMAIN ObjectPrototype)
    => FallbackPushed

\* C16: the label, preference and channel tables have the same keys, so an
\* event of any type that has a label, for a recipient who set every
\* preference flag to false, is never pushed.
DeclaredTypesCanBeOptedOut ==
    /\ DOMAIN TYPE_TO_PREF = DOMAIN NOTIFICATION_LABELS
    /\ DOMAIN TYPE_TO_CHANNEL = DOMAIN NOTIFICATION_LABELS
    /\ (/\ RecipientHasToken
        /\ req.type \in DOMAIN NOTIFICATION_LABELS
        /\ profiles[req.user_id].prefs = AllPrefsFalse)
       => calls = <<>>

\* what the tables give: the label and channel tables have the same keys,
\* and the preference table has all of them but new_recipe
NewRecipeHasNoPreference ==
    /\ DOMAIN TYPE_TO_CHANNEL = DOMAIN NOTIFICATION_LABELS
    /\ DOMAIN TYPE_TO_PREF = DOMAIN NOTIFICATION_LABELS \ {"new_recipe"}
    /\ (/\ RecipientHasToken
        /\ req.type \in DOMAIN NOTIFICATION_LABELS \ {"new_recipe"}
        /\ profiles[req.user_id].prefs = AllPrefsFalse)
       => calls = <<>>

\* an event of type new_recipe was pushed to a recipient who set every
\* preference flag to false
NewRecipePushedDespiteFlags ==
    /\ RecipientHasToken
    /\ req.type = "new_recipe"
    /\ profiles[req.user_id].prefs = AllPrefsFalse
    /\ Len(calls) = 1

\* the preference column the tables declare for the type of the event is
\* not explicitly false in the row of the recipient
PreferenceAllows ==
    \/ req.type \notin DOMAIN TYPE_TO_PREF
    \/ profiles[req.user_id].prefs[TYPE_TO_PREF[req.type]] \in {NULL, JTRUE}

\* the name of the actor of the event: the display name, else 'Someone'
ExpectedActorName ==
    IF /\ req.actor_id \in Users
       /\ profiles[req.actor_id].exists
       /\ profiles[req.actor_id].display_name \notin {NULL, ""}
    THEN profiles[req.actor_id].display_name
    ELSE "Someone"

\* the label of the type of the event
ExpectedLabel ==
    IF req.type \in DOMAIN NOTIFICATION_LABELS
    THEN NOTIFICATION_LABELS[req.type]
    ELSE "sent you a notification"

\* the answered on-notification kept the recipient: one call with one message
\* to the recipient's token, body '{actorName} {label}', and {sent: 1,
\* failed: 0} when the provider answered one 'ok' ticket
RecipientKept ==
    /\ resp.kind = "data"
    /\ Len(calls) = 1 /\ Len(calls[1]) = 1
    /\ calls[1][1].to = profiles[req.user_id].push_token
    /\ calls[1][1].body = <<ExpectedActorName, " ", ExpectedLabel>>
    /\ loc.response = [kind |-> "tickets", tickets |-> <<"ok">>]
       => resp = DataReply([sent |-> 1, failed |-> 0])

\* C17: default-allow.  An event for a recipient with a token whose
\* preference column for the type is absent, null or true is pushed to that
\* one token with body '{actorName} {label}', actorName being the display
\* name of the actor or 'Someone' without an actor or a display name; one
\* 'ok' ticket gives {sent: 1, failed: 0}.
DefaultAllow ==
    (RecipientHasToken /\ pc = "done" /\ PreferenceAllows) => RecipientKept

\* the same for the types that are not inherited keys of the tables
DefaultAllowOwnTypes ==
    (/\ RecipientHasToken /\ pc = "done" /\ PreferenceAllows
     /\ req.type \notin DOMAIN ObjectPrototype)
    => RecipientKept

\* scenario A: a like by an actor without a display name, for a recipient
\* with a token and no value for notify_recipe_like, answered {sent: 1,
\* failed: 0} with the body 'Someone liked your recipe'
ScenarioA ==
    /\ RecipientHasToken /\ pc = "done"
    /\ req.type = "like" /\ req.user_id = "u1" /\ req.actor_id = "u2"
    /\ profiles["u1"].prefs["notify_recipe_like"] = NULL
    /\ profiles["u2"].exists /\ profiles["u2"].display_name = NULL
    /\ calls[1][1].body = <<"Someone", " ", "liked your recipe">>
    /\ resp = DataReply([sent |-> 1, failed |-> 0])

\* the message type of the running on-message with its default
EventMessageType ==
    IF TruthyText(req.message_type) THEN req.message_type ELSE TEXT

\* the preview string of the running on-message before any cut
EventPreview == PreviewText(req.content, EventMessageType)

\* the body of the one message per token that on-message dispatched
DispatchedBody == calls[1][1].body

\* p cut to its first 97 characters and the marker '...'
Cut(p) == SubSeq(p, 1, 97) \o <<".", ".", ".">>

\* C18 as stated: for every preview string p the dispatched body is p itself
\* when p has at most 100 characters, and otherwise the first 97 characters
\* of p and '...', 100 characters in all; it is never longer than 100.
PreviewUnchangedOrCut ==
    (handler = "on-message" /\ loc.called /\ EventPreview # Absent)
    => /\ Len(EventPreview) <= 100 => DispatchedBody = EventPreview
       /\ Len(EventPreview) > 100
            => DispatchedBody = Cut(EventPreview) /\ Len(DispatchedBody) = 100
       /\ Len(DispatchedBody) <= 100

\* C18, amended: the dispatched body is p itself when p has 1 to 100
\* characters, 'Sent you a message' when p is empty, and otherwise the first
\* 97 characters of p and '...', 100 characters in all; it is never longer
\* than 100.
PreviewUnchangedCutOrDefault ==
    (handler = "on-message" /\ loc.called /\ EventPreview # Absent)
    => /\ Len(EventPreview) = 0 => DispatchedBody = SENT_YOU_A_MESSAGE
       /\ (Len(EventPreview) >= 1 /\ Len(EventPreview) <= 100)
            => DispatchedBody = EventPreview
       /\ Len(EventPreview) > 100
            => DispatchedBody = Cut(EventPreview) /\ Len(DispatchedBody) = 100
       /\ Len(DispatchedBody) <= 100

\* a text message of 150 characters was dispatched with a body of 100
\* characters that ends in the marker
LongContentCut ==
    /\ handler = "on-message" /\ loc.called
    /\ EventMessageType = TEXT
    /\ req.content # Absent /\ Len(req.content) = 150
    /\ Len(DispatchedBody) = 100
    /\ SubSeq(DispatchedBody, 98, 100) = <<".", ".", ".">>

\* s with every occurrence of from replaced by to
ReplaceEvery(s, from, to) == [i \in 1..Len(s) |-> IF s[i] = from THEN to ELSE s[i]]

\* the preview of the event as the type decides it, every underscore of the
\* type replaced
TypedPreview ==
    IF EventMessageType = TEXT THEN req.content
    ELSE IF EventMessageType = IMAGE THEN SENT_A_PHOTO
    ELSE SHARED_ \o ReplaceEvery(EventMessageType, "_", " ")

\* C19: the preview is the raw content for the type 'text' or no type,
\* 'Sent a photo' for 'image', and for every other type 'Shared ' and the
\* type with every underscore replaced by a space; seen on the dispatched
\* body of the previews that are neither empty nor cut.
PreviewByType ==
    (/\ handler = "on-message" /\ loc.called
     /\ TruthyText(TypedPreview) /\ Len(TypedPreview) <= 100)
    => /\ DispatchedBody = TypedPreview
       /\ EventMessageType \notin {TEXT, IMAGE} => "_" \notin Range(DispatchedBody)

\* the same with the first underscore of the type replaced and the others
\* kept
PreviewByTypeFirstUnderscore ==
    (/\ handler = "on-message" /\ loc.called
     /\ TruthyText(EventPreview) /\ Len(EventPreview) <= 100)
    => /\ DispatchedBody = EventPreview
       /\ EventPreview =
             IF EventMessageType = TEXT THEN req.content
             ELSE IF EventMessageType = IMAGE THEN SENT_A_PHOTO
             ELSE SHARED_ \o ReplaceFirst(EventMessageType, "_", " ")

\* the running webhook request carried a body that did not parse to an
\* object, or a row without the keys its handler needs
MalformedRequest ==
    /\ handler \in {"on-notification", "on-message"}
    /\ \/ req.kind = "unparsed"
       \/ req.kind = "notification" /\ req.user_id = NULL
       \/ req.kind = "message"
          /\ (req.conversation_id = NULL \/ req.sender_id = NULL)

\* C20: a webhook request with malformed or insufficient data (not JSON, the
\* JSON null, an empty object, a row without user_id, conversation_id or
\* sender_id) is answered 200 {skipped: true, reason}, never a failure
\* status, and no provider call is made.
MalformedIsSkipped ==
    (MalformedRequest /\ pc = "done")
    => /\ resp.status = 200
       /\ resp.kind = "skipped"
       /\ calls = <<>>

\* what the handlers answer: 500 {error: 'Internal error'} to a body that is
\* not JSON or is the JSON null, and a 200 skip without any store read to an
\* object that lacks a required key; no provider call either way
MalformedIsSkippedOrInternalError ==
    (MalformedRequest /\ pc = "done")
    => /\ calls = <<>>
       /\ reads = <<>>
       /\ IF req.kind = "unparsed"
          THEN resp = [status |-> 500, kind |-> "error", error |-> "Internal error"]
          ELSE resp = Skipped(IF req.kind = "notification"
                              THEN "no user_id" ELSE "missing fields")

\* a query of the running webhook invocation has failed
StoreReadFailed ==
    /\ handler \in {"on-notification", "on-message"}
    /\ \E i \in DOMAIN reads : reads[i] \in failing

\* C21: a webhook invocation one of whose store reads failed calls the
\* provider never and answers HTTP 500 with an {error} body, not a skip and
\* not a dispatch result.
StoreFailureIsInternalError ==
    StoreReadFailed
    => /\ calls = <<>>
       /\ pc = "done" => resp.status = 500 /\ resp.kind = "error"

\* what the handlers do: a failed read is taken for an empty one, and the
\* invocation is answered 200 with the skip or the result of the empty read
StoreFailureNeverSurfaces ==
    (StoreReadFailed /\ pc = "done")
    => LET failed == Range(reads) \cap failing
       IN  /\ resp.status = 200
           /\ resp.kind \in {"skipped", "data"}
           /\ "user_profiles:recipient" \in failed => resp = Skipped("no_push_token")
           /\ "conversation_participants" \in failed => resp = Skipped("no_recipients")
           /\ "user_profiles:recipients" \in failed => resp = Skipped("no_push_tokens")
           /\ failed \subseteq {"user_profiles:actor", "user_profiles:sender",
                                "notifications:unread"}
              => resp.kind = "data" /\ Len(calls) = 1

\* the row that a bare or enveloped body was made of
RowOf(b) == IF b.kind = "bare" THEN b.payload.own ELSE b.payload.record

\* the answered invocation did what the invocation before it did: the same
\* skip, or the same messages to the provider and, the provider answering
\* the same, the same result
SameOutcomeAsBefore ==
    /\ calls = prev.calls
    /\ resp.kind = prev.resp.kind
    /\ resp.kind # "data" => resp = prev.resp
    /\ loc.response = prev.response => resp = prev.resp

\* the running webhook invocation got the row of the invocation before it
\* in the other of the two shapes
SameRowOtherShape ==
    /\ handler \in {"on-notification", "on-message"}
    /\ prev.kind = "done" /\ prev.handler = handler
    /\ rawBody.kind \in {"bare", "envelope"}
    /\ prev.body.kind \in {"bare", "envelope"} \ {rawBody.kind}
    /\ RowOf(rawBody) = RowOf(prev.body)

\* C22: a webhook handler does the same with the row R whether the body is
\* R itself or {record: R}: the same skip reason, or the same tokens, title,
\* body and data to the provider.
BareAndEnvelopeAgree ==
    (SameRowOtherShape /\ pc = "done")
    => /\ req = RowOf(rawBody)
       /\ SameOutcomeAsBefore

\* a row was pushed from its envelope after it had been pushed bare
EnvelopePushedAfterBare ==
    /\ SameRowOtherShape /\ pc = "done"
    /\ rawBody.kind = "envelope"
    /\ Len(calls) = 1 /\ Len(prev.calls) = 1

HandlersNeverWrite ==
    [][/\ profiles' = profiles
       /\ participants' = participants
       /\ notifications' = notifications
       /\ follows' = follows
       /\ posts' = posts]_vars

\* a digest was pushed for a user who has unread notifications and a token
DigestPushedWithUnread ==
    /\ handler = "digest" /\ pc = "done" /\ loc.called
    /\ notifications[req.userId].recent > 0
    /\ notifications[req.userId].old > 0
    /\ profiles[req.userId].push_token = TokenOf(req.userId)

\* C24: every invocation comes to an answer, also when the provider never
\* answers: the call to the provider is bounded by a timeout.
EveryInvocationAnswers == (pc # "idle") ~> (pc = "done")

\* what holds without the provider: an invocation either comes to an answer
\* or is waiting for the fetch of sendExpoPush
AnswersOrAwaitsProvider == (pc # "idle") ~> (pc \in {"done", "fetch"})

\* an /api request that matches no public pattern and carries no valid
\* Bearer token
Unauthenticated(r) ==
    /\ Len(r.path) >= 1 /\ r.path[1] = "api"
    /\ ~isPublicPath(r.path)
    /\ r.auth.kind # "valid"

\* a request that needs no token: GET /health, or an /api path that matches a
\* public pattern
Public(r) ==
    \/ r.method = "GET" /\ r.path = <<"health">>
    \/ Len(r.path) >= 1 /\ r.path[1] = "api" /\ isPublicPath(r.path)

\* C25: every /api request that matches no public pattern and carries no
\* valid Bearer token is answered 401 UNAUTHORIZED.
UnauthenticatedIsRejected ==
    (http.stage = "answered" /\ Unauthenticated(http.req))
        => (http.status = 401 /\ http.code = "UNAUTHORIZED")

\* what holds: every request other than a preflight (OPTIONS, which cors
\* answers itself) to an /api path that matches no public pattern, without a
\* valid Bearer token, is answered 401 UNAUTHORIZED by the auth middleware:
\* neither the rate limiter nor a route nor the 404 of the app runs and the
\* entries of the rate limiter stay as they were.  GET /health and the public
\* patterns are never answered 401, and a path outside /api that no route
\* takes is answered 404.
AuthBeforeLimiterAndRoutes ==
    [][(http'.stage = "answered" /\ http'.req.method # "OPTIONS") =>
        LET r == http'.req
            answered == http'
        IN  /\ Unauthenticated(r) =>
                /\ answered.status = 401 /\ answered.code = "UNAUTHORIZED"
                /\ answered.ran = <<"cors", "logger", "auth">>
                /\ rl' = rl /\ log' = log
            /\ Public(r) => answered.status \in {200, 404}
            /\ (r.path[1] # "api" /\ ~Routed(r.method, r.path)) =>
                    answered.status = 404]_vars

\* a request without a valid token to an /api path that no router takes, and
\* one to the rate-limited routes after the limiter has counted requests
UnknownApiPathRejected ==
    /\ http.stage = "answered"
    /\ http.req.method = "GET"
    /\ http.req.path \in {<<"api", "nonexistent">>, <<"api", "ai", "chat">>}
    /\ http.req.auth.kind = "invalid"
    /\ http.status = 401
    /\ \E k \in Keys : rl[k].present /\ rl[k].count = limit

RECURSIVE SumOver(_, _, _)
SumOver(f, from, to) ==
    IF from > to THEN 0 ELSE f[from] + SumOver(f, from + 1, to)

\* the requests of a key that passed the limiter at the instants
\* from, ..., from + windowMs - 1
PassedIn(key, from) ==
    SumOver(log[key], from,
            IF from + windowMs - 1 > MaxTime THEN MaxTime ELSE from + windowMs - 1)

\* C26: in every interval of length windowMs at most `limit` requests of a key
\* pass the rate limiter.
SlidingWindow ==
    \A key \in Keys : \A from \in 0..MaxTime : PassedIn(key, from) <= limit

\* what holds: within one window of a key, from its first request to resetAt,
\* at most `limit` requests pass, so at most twice the limit in an interval of
\* length windowMs; the request the limiter answers is answered 429
\* RATE_LIMITED and reaches no route
FixedWindow ==
    /\ \A key \in Keys : \A from \in 0..MaxTime : PassedIn(key, from) <= 2 * limit
    /\ \A key \in Keys :
          (rl[key].present /\ now < rl[key].resetAt) =>
              SumOver(log[key], rl[key].resetAt - windowMs, now)
                  = (IF rl[key].count > limit THEN limit ELSE rl[key].count)
    /\ (http.stage = "answered" /\ http.status = 429) =>
          /\ http.code = "RATE_LIMITED"
          /\ http.ran = <<"cors", "logger", "auth", "rateLimiter">>

\* the reads that compose the push: the display name of the sender or actor
ComposingReads == {"user_profiles:sender", "user_profiles:actor"}

\* C27: all filtering of recipients (mute, token, preference,
\* notify_direct_message) is complete before any composition step starts: an
\* invocation that the filtering ends as skipped has made no read that
\* composes the push.
FilteredBeforeComposed ==
    (pc = "done" /\ resp.kind = "skipped") =>
        Range(reads) \cap ComposingReads = {}

\* what holds: every store read is made before the provider is called, and
\* every skip other than all_dm_disabled is decided before any composing read
ReadsBeforeProviderCall ==
    [][/\ (calls # <<>> /\ pc' # "idle") => reads' = reads
       /\ (pc' = "done" /\ resp'.kind = "skipped"
              /\ resp'.reason # "all_dm_disabled") =>
                  Range(reads') \cap ComposingReads = {}]_vars

\* C29: an on-notification invocation that dispatches carries the unread
\* count of the recipient, as read from the store, in the push as its badge.
UnreadCountIsBadge ==
    (handler = "on-notification" /\ calls # <<>> /\ loc.unreadCount > 0) =>
        \A i \in DOMAIN calls[1] :
            LET message == calls[1][i]
            IN  \/ "badge" \in DOMAIN message /\ message.badge = loc.unreadCount
                \/ "badge" \in DOMAIN message.data
                   /\ message.data.badge = loc.unreadCount

\* what holds: the push is the same whatever the unread count is; it has the
\* fields to, sound, title, body and data, and data is built from the record
UnreadCountIsDropped ==
    (handler = "on-notification" /\ calls # <<>>) =>
        /\ Len(calls) = 1
        /\ calls[1] = Messages(loc.tokens, "KitchenSync",
                               NotificationBody(loc.actorName, req.type),
                               NotificationData(req))
        /\ \A i \in DOMAIN calls[1] :
              DOMAIN calls[1][i] = {"to", "sound", "title", "body", "data"}

\* the settings of u in the store exclude u from the pushes of the running
\* handler
Excluded(u) ==
    \/ ~Truthy(profiles[u].push_token)
    \/ /\ handler = "on-message"
       /\ \/ profiles[u].notify_direct_message = JFALSE
          \/ \E p \in participants :
                /\ p.conversation_id = req.conversation_id
                /\ p.user_id = u /\ p.is_muted
    \/ /\ handler = "on-notification"
       /\ PreferenceDisabled(profiles[u], Lookup(TYPE_TO_PREF, req.type))

\* the users the messages of the first call to the provider go to
PushedUsers(c) == {u \in Users : \E i \in DOMAIN c[1] : c[1][i].to = TokenOf(u)}

\* C30: a recipient whose mute flag, preference flag or push token was set to
\* an excluding value before the handler calls the provider is not among the
\* recipients of the call.
NoStalePush ==
    [][(calls = <<>> /\ calls' # <<>>) =>
          \A u \in PushedUsers(calls') : ~Excluded(u)]_vars

\* a push is in flight to a user whose settings exclude it
StalePushInFlight ==
    /\ pc = "fetch"
    /\ \E u \in PushedUsers(calls) : Excluded(u)

====
